---- MODULE Spec2Model ----
(***************************************************************************)
(* Lifting diary: the relational store (exercises, workouts,              *)
(* workout_exercises, sets), the data access layer (getWorkoutsByDate,    *)
(* getWorkoutSummary), and the mutation layer (createWorkout,             *)
(* updateWorkout, deleteWorkout, createWorkoutWithExercises and the       *)
(* server actions built on them).                                         *)
(*                                                                         *)
(* Tables are sets of rows.  A uuid primary key is an element of a small  *)
(* id pool; a calendar date is a day number; a nullable column holds Null *)
(* (a row or record) or NullUser (a user id).  Columns no modelled query  *)
(* reads (notes, createdAt, updatedAt, primaryMuscle, exercise name) are  *)
(* left out of the rows.                                                   *)
(***************************************************************************)
EXTENDS Integers, Sequences, FiniteSets, TLC

\* ------------------------------------------------------------------ bounds
MaxWorkouts == 2
MaxWorkoutExercises == 2
MaxSets == 2

WorkoutIds == 1..MaxWorkouts
WorkoutExerciseIds == 1..MaxWorkoutExercises
SetIds == 1..MaxSets
Orders == {1, 2}
Dates == {1, 2}

Users == {"A", "B"}
NullUser == "null"
Null == [null |-> TRUE]
Reps == {5}
Weights == {"100.00"}

\* The store's four tables; the server's clock (now: a UTC day number and
\* hour) and time zone (tz: hours east of UTC); last: the latest call, with
\* its arguments and what it returned.
VARIABLES exercises, workouts, workoutExercises, sets, now, tz, last

vars == <<exercises, workouts, workoutExercises, sets, now, tz, last>>

\* ------------------------------------------------------------- sequences
Range(s) == {s[i] : i \in DOMAIN s}

Min(S) == CHOOSE x \in S : \A y \in S : x <= y

\* Lexicographic order on equally long sequences of integers.
RECURSIVE LexLess(_, _)
LexLess(a, b) ==
  IF a = <<>> THEN FALSE
  ELSE IF Head(a) # Head(b) THEN Head(a) < Head(b)
  ELSE LexLess(Tail(a), Tail(b))

\* ORDER BY: every sequence that lists the rows of S once each and never puts
\* a row after one with a greater key.  SQL leaves the order of rows with equal
\* keys open, so the result of a query is any member of this set.
RECURSIVE OrderBy(_, _)
OrderBy(S, key) ==
  IF S = {} THEN {<<>>}
  ELSE UNION { { <<r>> \o t : t \in OrderBy(S \ {r}, key) } :
               r \in {x \in S : \A y \in S : ~LexLess(key[y], key[x])} }

\* A nullable integer column as a sort key: ascending, NULLs last.
NullsLast(isNull, v) == IF isNull THEN <<1, 0>> ELSE <<0, v>>

\* Map<K, V> of JavaScript: entries in insertion order; set on a present key
\* keeps the entry's position.
MapHas(m, k) == \E i \in DOMAIN m : m[i].key = k
MapGet(m, k) == m[CHOOSE i \in DOMAIN m : m[i].key = k].value
MapSet(m, k, v) ==
  IF MapHas(m, k)
  THEN [i \in DOMAIN m |-> IF m[i].key = k THEN [key |-> k, value |-> v] ELSE m[i]]
  ELSE Append(m, [key |-> k, value |-> v])
MapValues(m) == [i \in DOMAIN m |-> m[i].value]

\* ------------------------------------------------------------ data access
\* part_000:87  .sort((a, b) => a.workoutExercise.order - b.workoutExercise.order)
\* (Array.prototype.sort is stable).
RECURSIVE InsertByOrder(_, _)
InsertByOrder(x, s) ==
  IF s = <<>> THEN <<x>>
  ELSE IF x.workoutExercise.order < Head(s).workoutExercise.order THEN <<x>> \o s
  ELSE <<Head(s)>> \o InsertByOrder(x, Tail(s))

\* The comparator reversed: b.workoutExercise.order - a.workoutExercise.order.
RECURSIVE SortByOrderReversed(_)
SortByOrderReversed(s) ==
  IF s = <<>> THEN <<>>
  ELSE LET rest == SortByOrderReversed(SubSeq(s, 1, Len(s) - 1))
           x == s[Len(s)]
           before == SelectSeq(rest, LAMBDA y : y.workoutExercise.order >= x.workoutExercise.order)
           after == SelectSeq(rest, LAMBDA y : y.workoutExercise.order < x.workoutExercise.order)
       IN  before \o <<x>> \o after

RECURSIVE SortByOrder(_)
SortByOrder(s) ==
  IF s = <<>> THEN <<>>
  ELSE InsertByOrder(s[Len(s)], SortByOrder(SubSeq(s, 1, Len(s) - 1)))

\* part_000:96  sets.sort((a, b) => a.setNumber - b.setNumber)
RECURSIVE InsertBySetNumber(_, _)
InsertBySetNumber(x, s) ==
  IF s = <<>> THEN <<x>>
  ELSE IF x.setNumber < Head(s).setNumber THEN <<x>> \o s
  ELSE <<Head(s)>> \o InsertBySetNumber(x, Tail(s))

RECURSIVE SortBySetNumber(_)
SortBySetNumber(s) ==
  IF s = <<>> THEN <<>>
  ELSE InsertBySetNumber(s[Len(s)], SortBySetNumber(SubSeq(s, 1, Len(s) - 1)))

\* The column lists of the select clauses.
WorkoutCols(w) == [id |-> w.id, name |-> w.name, date |-> w.date]
WorkoutExerciseCols(we) == [id |-> we.id, order |-> we.order]
ExerciseCols(e) == [id |-> e.id]
SetCols(s) == [id |-> s.id, setNumber |-> s.setNumber, weight |-> s.weight, reps |-> s.reps]

\* part_000:130-134  workouts LEFT JOIN workout_exercises LEFT JOIN exercises
\* LEFT JOIN sets WHERE workouts.user_id = userId AND workouts.date = date.
\* A left join that matches nothing yields one row with the right side NULL.
JoinSetsOf(w, we, exs) ==
  LET ss == {s \in sets : s.workoutExerciseId = we.id}
  IN  IF ss = {}
      THEN { [workout |-> WorkoutCols(w), workoutExercise |-> WorkoutExerciseCols(we),
              exercise |-> ex, set |-> Null] : ex \in exs }
      ELSE { [workout |-> WorkoutCols(w), workoutExercise |-> WorkoutExerciseCols(we),
              exercise |-> ex, set |-> SetCols(s)] : ex \in exs, s \in ss }

JoinExercisesOf(w, we) ==
  LET es == {e \in exercises : e.id = we.exerciseId}
  IN  JoinSetsOf(w, we, IF es = {} THEN {Null} ELSE {ExerciseCols(e) : e \in es})

\* An inner join in place of the first left join.
JoinWorkoutInner(w) ==
  UNION { JoinExercisesOf(w, we) : we \in {x \in workoutExercises : x.workoutId = w.id} }

JoinWorkout(w) ==
  LET wes == {we \in workoutExercises : we.workoutId = w.id}
  IN  IF wes = {}
      THEN { [workout |-> WorkoutCols(w), workoutExercise |-> Null,
              exercise |-> Null, set |-> Null] }
      ELSE UNION { JoinExercisesOf(w, we) : we \in wes }

\* The WHERE clause without the user id.
JoinRowsAnyUser(userId, date) ==
  UNION { JoinWorkout(w) : w \in {x \in workouts : x.date = date} }

JoinRows(userId, date) ==
  UNION { JoinWorkout(w) : w \in {x \in workouts : x.userId = userId /\ x.date = date} }

\* part_000:135  .orderBy(workouts.id, workoutExercises.order, sets.setNumber)
JoinRowKey(r) ==
  <<r.workout.id>>
  \o NullsLast(r.workoutExercise = Null,
               IF r.workoutExercise = Null THEN 0 ELSE r.workoutExercise.order)
  \o NullsLast(r.set = Null, IF r.set = Null THEN 0 ELSE r.set.setNumber)

JoinQuery(userId, date) ==
  LET S == JoinRows(userId, date)
  IN  OrderBy(S, [r \in S |-> JoinRowKey(r)])

\* The exercise entry set anew on every row, without the has() test.
FoldRowNoHas(workoutsMap, row) ==
  LET m1 == IF MapHas(workoutsMap, row.workout.id) THEN workoutsMap
            ELSE MapSet(workoutsMap, row.workout.id,
                        [workout |-> row.workout, exercisesMap |-> <<>>])
      workoutEntry == MapGet(m1, row.workout.id)
  IN  IF row.workoutExercise = Null \/ row.exercise = Null THEN m1
      ELSE LET em1 == MapSet(workoutEntry.exercisesMap, row.workoutExercise.id,
                             [workoutExercise |-> row.workoutExercise,
                              exercise |-> row.exercise, sets |-> <<>>])
               exerciseEntry == MapGet(em1, row.workoutExercise.id)
               em2 == IF row.set # Null
                      THEN MapSet(em1, row.workoutExercise.id,
                                  [exerciseEntry EXCEPT !.sets = Append(@, row.set)])
                      ELSE em1
           IN  MapSet(m1, row.workout.id, [workoutEntry EXCEPT !.exercisesMap = em2])

\* part_000:49-78  one iteration of the loop over the rows.
FoldRow(workoutsMap, row) ==
  LET m1 == IF MapHas(workoutsMap, row.workout.id) THEN workoutsMap
            ELSE MapSet(workoutsMap, row.workout.id,
                        [workout |-> row.workout, exercisesMap |-> <<>>])
      workoutEntry == MapGet(m1, row.workout.id)
  IN  IF row.workoutExercise = Null \/ row.exercise = Null THEN m1
      ELSE LET em1 == IF MapHas(workoutEntry.exercisesMap, row.workoutExercise.id)
                      THEN workoutEntry.exercisesMap
                      ELSE MapSet(workoutEntry.exercisesMap, row.workoutExercise.id,
                                  [workoutExercise |-> row.workoutExercise,
                                   exercise |-> row.exercise, sets |-> <<>>])
               exerciseEntry == MapGet(em1, row.workoutExercise.id)
               em2 == IF row.set # Null
                      THEN MapSet(em1, row.workoutExercise.id,
                                  [exerciseEntry EXCEPT !.sets = Append(@, row.set)])
                      ELSE em1
           IN  MapSet(m1, row.workout.id, [workoutEntry EXCEPT !.exercisesMap = em2])

RECURSIVE FoldRows(_, _)
FoldRows(workoutsMap, rows) ==
  IF rows = <<>> THEN workoutsMap
  ELSE FoldRows(FoldRow(workoutsMap, Head(rows)), Tail(rows))

\* part_000:88-97  one exercise entry of the output.
ExerciseOut(entry) ==
  [id |-> entry.workoutExercise.id, order |-> entry.workoutExercise.order,
   exercise |-> entry.exercise, sets |-> SortBySetNumber(entry.sets)]

\* part_000:81-98  one workout of the output.
WorkoutOut(entry) ==
  LET sorted == SortByOrder(MapValues(entry.exercisesMap))
  IN  [id |-> entry.workout.id, name |-> entry.workout.name, date |-> entry.workout.date,
       exercises |-> [i \in DOMAIN sorted |-> ExerciseOut(sorted[i])]]

\* part_000:31-99
transformToWorkoutWithExercises(rows) ==
  LET values == MapValues(FoldRows(<<>>, rows))
  IN  [i \in DOMAIN values |-> WorkoutOut(values[i])]

\* part_000:101-138  every result the join implementation can return.
getWorkoutsByDate(userId, date) ==
  { transformToWorkoutWithExercises(rows) : rows \in JoinQuery(userId, date) }

\* types.ts:74-84  sets of one workout-exercise, ORDER BY set_number.
SetsQuery(workoutExerciseId) ==
  LET S == { SetCols(s) : s \in {x \in sets : x.workoutExerciseId = workoutExerciseId} }
  IN  OrderBy(S, [r \in S |-> <<r.setNumber>>])

\* types.ts:57-70  workout_exercises INNER JOIN exercises of one workout,
\* ORDER BY "order".
ExercisesQuery(workoutId) ==
  LET S == UNION { { [id |-> we.id, order |-> we.order, exercise |-> ExerciseCols(e)] :
                     e \in {x \in exercises : x.id = we.exerciseId} } :
                   we \in {x \in workoutExercises : x.workoutId = workoutId} }
  IN  OrderBy(S, [r \in S |-> <<r.order>>])

\* types.ts:72-93  Promise.all over the exercises: one sets query each, the
\* results in the order of the exercises.
RECURSIVE ExercisesWithSets(_)
ExercisesWithSets(list) ==
  IF list = <<>> THEN {<<>>}
  ELSE { <<[id |-> Head(list).id, order |-> Head(list).order,
            exercise |-> Head(list).exercise, sets |-> ss]>> \o rest :
         ss \in SetsQuery(Head(list).id), rest \in ExercisesWithSets(Tail(list)) }

\* types.ts:56-102  the loop over the workouts.
RECURSIVE WorkoutsWithExercises(_)
WorkoutsWithExercises(userWorkouts) ==
  IF userWorkouts = <<>> THEN {<<>>}
  ELSE LET workout == Head(userWorkouts)
       IN  { <<[id |-> workout.id, name |-> workout.name, date |-> workout.date,
                exercises |-> es]>> \o rest :
             es \in UNION { ExercisesWithSets(l) : l \in ExercisesQuery(workout.id) },
             rest \in WorkoutsWithExercises(Tail(userWorkouts)) }

\* types.ts:41-105  every result the sequential implementation can return.
\* The workouts query has no ORDER BY.
getWorkoutsByDateSequential(userId, date) ==
  LET S == {w \in workouts : w.userId = userId /\ w.date = date}
  IN  IF S = {} THEN {<<>>}
      ELSE UNION { WorkoutsWithExercises(l) : l \in OrderBy(S, [w \in S |-> <<>>]) }

\* ---------------------------------------------------------------- schema
\* part_002:5,15,26,39  uuid().primaryKey().defaultRandom(): an id no row of
\* the table has.
FreeIds(pool, table) == pool \ {r.id : r \in table}

\* part_002:29  workout_id references workouts.id, ON DELETE CASCADE.
CascadeWorkoutExercises(wes, ws) == {we \in wes : \E w \in ws : w.id = we.workoutId}

\* part_002:42  workout_exercise_id references workout_exercises.id, ON DELETE
\* CASCADE.
CascadeSets(ss, wes) == {s \in ss : \E we \in wes : we.id = s.workoutExerciseId}

\* part_002:27-32  the foreign keys an inserted workout_exercises row must meet.
WorkoutExerciseForeignKeys(row, ws, exs) ==
  /\ \E w \in ws : w.id = row.workoutId
  /\ \E e \in exs : e.id = row.exerciseId

\* part_002:40-42  the foreign key an inserted sets row must meet.
SetForeignKeys(row, wes) == \E we \in wes : we.id = row.workoutExerciseId

\* The DELETE on a schema whose exercise_id reference cascades.
deleteExerciseCascade(exerciseId) ==
  LET wes == {we \in workoutExercises : we.exerciseId # exerciseId}
  IN  [exercises |-> {e \in exercises : e.id # exerciseId}, workoutExercises |-> wes,
       sets |-> CascadeSets(sets, wes), threw |-> FALSE]

\* part_002:30-32  exercise_id references exercises.id, ON DELETE RESTRICT: a
\* DELETE of an exercise row that a workout_exercises row references is
\* rejected by the store and deletes nothing.
deleteExercise(exerciseId) ==
  IF \E we \in workoutExercises : we.exerciseId = exerciseId
  THEN [exercises |-> exercises, workoutExercises |-> workoutExercises, sets |-> sets,
        threw |-> TRUE]
  ELSE [exercises |-> {e \in exercises : e.id # exerciseId},
        workoutExercises |-> workoutExercises, sets |-> sets, threw |-> FALSE]

\* ------------------------------------------------------------- mutations
Undefined == "undefined"

\* ui.md:175-190
createWorkout(userId, data, id) ==
  LET workout == [id |-> id, userId |-> userId, name |-> data.name, date |-> data.date]
  IN  [workouts |-> workouts \cup {workout}, returned |-> workout]

\* The WHERE clause without the user id.
updateWorkoutAnyUser(userId, workoutId, data) ==
  LET hit == {w \in workouts : w.id = workoutId}
      new(w) == IF data.name = Undefined THEN w ELSE [w EXCEPT !.name = data.name]
  IN  [workouts |-> (workouts \ hit) \cup {new(w) : w \in hit},
       returned |-> IF hit = {} THEN Null ELSE new(CHOOSE w \in hit : TRUE)]

\* ui.md:192-207  UPDATE ... WHERE id = workoutId AND user_id = userId
\* RETURNING *; a key of data that is undefined is not set.
updateWorkout(userId, workoutId, data) ==
  LET hit == {w \in workouts : w.id = workoutId /\ w.userId = userId}
      new(w) == IF data.name = Undefined THEN w ELSE [w EXCEPT !.name = data.name]
  IN  [workouts |-> (workouts \ hit) \cup {new(w) : w \in hit},
       returned |-> IF hit = {} THEN Null ELSE new(CHOOSE w \in hit : TRUE)]

\* The WHERE clause without the user id.
deleteWorkoutAnyUser(userId, workoutId) ==
  LET hit == {w \in workouts : w.id = workoutId}
      ws == workouts \ hit
      wes == CascadeWorkoutExercises(workoutExercises, ws)
  IN  [workouts |-> ws, workoutExercises |-> wes, sets |-> CascadeSets(sets, wes),
       returned |-> IF hit = {} THEN Null ELSE [id |-> workoutId]]

\* The DELETE on a schema without ON DELETE CASCADE actions.
deleteWorkoutNoCascade(userId, workoutId) ==
  LET hit == {w \in workouts : w.id = workoutId /\ w.userId = userId}
  IN  [workouts |-> workouts \ hit, workoutExercises |-> workoutExercises, sets |-> sets,
       returned |-> IF hit = {} THEN Null ELSE [id |-> workoutId]]

\* ui.md:209-216  DELETE ... WHERE id = workoutId AND user_id = userId
\* RETURNING id, with the cascades of the schema.
deleteWorkout(userId, workoutId) ==
  LET hit == {w \in workouts : w.id = workoutId /\ w.userId = userId}
      ws == workouts \ hit
      wes == CascadeWorkoutExercises(workoutExercises, ws)
  IN  [workouts |-> ws, workoutExercises |-> wes, sets |-> CascadeSets(sets, wes),
       returned |-> IF hit = {} THEN Null ELSE [id |-> workoutId]]

\* ui.md:742-772  db.transaction: the statements run on tx; the first one that
\* throws ends the callback and the transaction rolls back.  A statement
\* throws when the store rejects it (a foreign key) or when the connection
\* fails at it (faultAt is the number of the statement that fails, 0 for none).
TxBegin(faultAt) ==
  [workouts |-> workouts, workoutExercises |-> workoutExercises, sets |-> sets,
   statements |-> 0, faultAt |-> faultAt, failed |-> FALSE]

TxThrows(tx) == tx.statements + 1 = tx.faultAt

\* ui.md:744-747
TxInsertWorkout(tx, row) ==
  IF TxThrows(tx) THEN [tx EXCEPT !.failed = TRUE, !.statements = @ + 1]
  ELSE [tx EXCEPT !.workouts = @ \cup {row}, !.statements = @ + 1]

\* ui.md:752-759
TxInsertWorkoutExercise(tx, row) ==
  IF TxThrows(tx) \/ ~WorkoutExerciseForeignKeys(row, tx.workouts, exercises)
  THEN [tx EXCEPT !.failed = TRUE, !.statements = @ + 1]
  ELSE [tx EXCEPT !.workoutExercises = @ \cup {row}, !.statements = @ + 1]

\* ui.md:762-767
TxInsertSet(tx, row) ==
  IF TxThrows(tx) \/ ~SetForeignKeys(row, tx.workoutExercises)
  THEN [tx EXCEPT !.failed = TRUE, !.statements = @ + 1]
  ELSE [tx EXCEPT !.sets = @ \cup {row}, !.statements = @ + 1]

\* A submitted weight is a JS number; the model writes it in thousandths
\* (100000 is 100, 100555 is 100.555).  part_002:44  numeric(7, 2) keeps two
\* decimals: the store rounds the value written to the nearest hundredth, a
\* half away from zero.
RoundToScale(w) == (w + 5) \div 10

\* part_002:44  the text the store returns for a numeric(7, 2) value, given in
\* hundredths: always two decimals.
NumericText == (10000 :> "100.00") @@ (10055 :> "100.55") @@ (10056 :> "100.56")

\* The store cutting the value written to two decimals.
NumericToStringTruncated == [w \in {100000, 100555} |-> NumericText[w \div 10]]

\* ui.md:765  weight.toString() into numeric(7, 2) (part_002:44), read back as
\* a string with two decimals.
NumericToString == [w \in {100000, 100555} |-> NumericText[RoundToScale(w)]]
InputWeights == DOMAIN NumericToString

\* ui.md:761-768  the loop over the sets of one exercise, from index j.
RECURSIVE TxSets(_, _, _, _)
TxSets(tx, workoutExerciseId, list, j) ==
  IF tx.failed \/ j > Len(list) THEN tx
  ELSE TxSets(TxInsertSet(tx, [id |-> Min(FreeIds(SetIds, tx.sets)),
                               workoutExerciseId |-> workoutExerciseId,
                               setNumber |-> j,
                               weight |-> NumericToString[list[j].weight],
                               reps |-> list[j].reps]),
              workoutExerciseId, list, j + 1)

\* The loop storing its 0-based counter as order.
RECURSIVE TxExercisesZeroBased(_, _, _, _)
TxExercisesZeroBased(tx, workoutId, list, i) ==
  IF tx.failed \/ i > Len(list) THEN tx
  ELSE LET id == Min(FreeIds(WorkoutExerciseIds, tx.workoutExercises))
           tx1 == TxInsertWorkoutExercise(tx, [id |-> id, workoutId |-> workoutId,
                                               exerciseId |-> list[i].exerciseId,
                                               order |-> i - 1])
       IN  TxExercisesZeroBased(TxSets(tx1, id, list[i].sets, 1), workoutId, list, i + 1)

\* ui.md:750-769  the loop over the exercises, from index i.
RECURSIVE TxExercises(_, _, _, _)
TxExercises(tx, workoutId, list, i) ==
  IF tx.failed \/ i > Len(list) THEN tx
  ELSE LET id == Min(FreeIds(WorkoutExerciseIds, tx.workoutExercises))
           tx1 == TxInsertWorkoutExercise(tx, [id |-> id, workoutId |-> workoutId,
                                               exerciseId |-> list[i].exerciseId,
                                               order |-> i])
       IN  TxExercises(TxSets(tx1, id, list[i].sets, 1), workoutId, list, i + 1)

\* The statements run on db in place of tx: nothing is rolled back.
TxEndNoRollback(tx) ==
  [workouts |-> tx.workouts, workoutExercises |-> tx.workoutExercises, sets |-> tx.sets]

\* ui.md:742  what db.transaction leaves in the store: the writes of tx when
\* the callback returned, nothing when it threw.
TxEnd(tx) ==
  IF tx.failed
  THEN [workouts |-> workouts, workoutExercises |-> workoutExercises, sets |-> sets]
  ELSE [workouts |-> tx.workouts, workoutExercises |-> tx.workoutExercises,
        sets |-> tx.sets]

\* ui.md:731-773
createWorkoutWithExercises(userId, data, id, faultAt) ==
  LET workout == [id |-> id, userId |-> userId, name |-> data.name, date |-> data.date]
      tx1 == TxInsertWorkout(TxBegin(faultAt), workout)
      tx2 == TxExercises(tx1, id, data.exercises, 1)
      end == TxEnd(tx2)
  IN  [workouts |-> end.workouts, workoutExercises |-> end.workoutExercises,
       sets |-> end.sets, threw |-> tx2.failed,
       returned |-> IF tx2.failed THEN Null ELSE workout]

\* ---------------------------------------------------------------- summary
WindowDays == 30
RecentLimit == 5
HoursPerDay == 24

\* new Date() read through getDate()/getHours(): the server's local calendar
\* day and hour of the instant t.
LocalDay(t, zone) == (t.day * HoursPerDay + t.hour + zone) \div HoursPerDay
LocalHour(t, zone) == (t.day * HoursPerDay + t.hour + zone) % HoursPerDay

\* part_000:144  setDate(getDate() - 30): the instant at the same local time
\* of day, 30 local days earlier (the zone's offset taken as fixed).
SetDateBack(t, zone) ==
  LET hours == (LocalDay(t, zone) - WindowDays) * HoursPerDay + LocalHour(t, zone) - zone
  IN  [day |-> hours \div HoursPerDay, hour |-> hours % HoursPerDay]

\* part_000:145  toISOString().split("T")[0]: the UTC calendar day of t.
ToISODate(t) == t.day

\* part_000:143-145
thirtyDaysAgoStr(t, zone) == ToISODate(SetDateBack(t, zone))

\* The count restricted to the dates of the 30-day window.
CountWorkoutsInWindow(userId) ==
  Cardinality({w \in workouts : w.userId = userId /\ w.date >= thirtyDaysAgoStr(now, tz)})

\* part_000:149-152  count(*) of the user's workouts.
CountWorkouts(userId) == Cardinality({w \in workouts : w.userId = userId})

\* ORDER BY date without desc().
RecentQueryAscending(userId) ==
  LET S == { WorkoutCols(w) : w \in {x \in workouts : x.userId = userId} }
  IN  { SubSeq(l, 1, IF Len(l) < RecentLimit THEN Len(l) ELSE RecentLimit) :
        l \in OrderBy(S, [r \in S |-> <<r.date>>]) }

\* part_000:154-163  ORDER BY date DESC LIMIT 5, projected to id, name, date.
RecentQuery(userId) ==
  LET S == { WorkoutCols(w) : w \in {x \in workouts : x.userId = userId} }
  IN  { SubSeq(l, 1, IF Len(l) < RecentLimit THEN Len(l) ELSE RecentLimit) :
        l \in OrderBy(S, [r \in S |-> <<0 - r.date>>]) }

\* part_000:165-171  count(*) of workout_exercises INNER JOIN workouts with
\* user_id = userId and date >= cutoff.
CountExercises(userId, cutoff) ==
  Cardinality({ we \in workoutExercises :
                  \E w \in workouts : /\ w.id = we.workoutId
                                      /\ w.userId = userId
                                      /\ w.date >= cutoff })

\* The WHERE clause without the user id.
CountSetsAnyUser(userId, cutoff) ==
  Cardinality({ s \in sets : \E we \in workoutExercises :
                  /\ we.id = s.workoutExerciseId
                  /\ \E w \in workouts : w.id = we.workoutId /\ w.date >= cutoff })

\* part_000:173-183  count(*) of sets INNER JOIN workout_exercises INNER JOIN
\* workouts with user_id = userId and date >= cutoff.
CountSets(userId, cutoff) ==
  Cardinality({ s \in sets : \E we \in workoutExercises :
                  /\ we.id = s.workoutExerciseId
                  /\ \E w \in workouts : /\ w.id = we.workoutId
                                         /\ w.userId = userId
                                         /\ w.date >= cutoff })

\* lastWorkoutDate taken from the last entry of recentWorkouts.
WorkoutSummaryLastEntry(totalWorkouts, recentWorkouts, totalExercises, totalSets) ==
  [totalWorkouts |-> totalWorkouts, totalExercises |-> totalExercises,
   totalSets |-> totalSets, recentWorkouts |-> recentWorkouts,
   lastWorkoutDate |-> IF recentWorkouts = <<>> THEN <<>>
                       ELSE <<recentWorkouts[Len(recentWorkouts)].date>>]

\* part_000:186-192  the value returned; lastWorkoutDate is <<date>>, or <<>>
\* for null.
WorkoutSummary(totalWorkouts, recentWorkouts, totalExercises, totalSets) ==
  [totalWorkouts |-> totalWorkouts, totalExercises |-> totalExercises,
   totalSets |-> totalSets, recentWorkouts |-> recentWorkouts,
   lastWorkoutDate |-> IF recentWorkouts = <<>> THEN <<>> ELSE <<recentWorkouts[1].date>>]

\* part_000:140-193  every summary the call can return at instant t.
getWorkoutSummary(userId, t, zone) ==
  LET cutoff == thirtyDaysAgoStr(t, zone)
  IN  { WorkoutSummary(CountWorkouts(userId), recent,
                       CountExercises(userId, cutoff), CountSets(userId, cutoff)) :
        recent \in RecentQuery(userId) }

\* The four sub-queries of getWorkoutSummary; a call runs with the set of those
\* that the store fails.
SubQueries == {"totalWorkouts", "recentWorkouts", "exercises", "sets"}

\* A promise of a sub-query: rejected when the store fails it, else fulfilled
\* with its rows.
Settled(name, failed, value) == [rejected |-> name \in failed, value |-> value]

\* part_000:148  Promise.all: rejected when one of the promises is rejected,
\* else fulfilled with the values in order.  (types.ts:114-151 awaits the same
\* four queries one after the other: the first that fails throws.)
PromiseAll(promises) ==
  [rejected |-> \E i \in DOMAIN promises : promises[i].rejected,
   value |-> [i \in DOMAIN promises |-> promises[i].value]]

\* Promise.allSettled with a default for every rejected sub-query.
getWorkoutSummaryAllSettled(userId, t, zone, failed) ==
  LET cutoff == thirtyDaysAgoStr(t, zone)
      or(name, value, default) == IF name \in failed THEN default ELSE value
  IN  { [threw |-> FALSE,
         value |-> WorkoutSummary(or("totalWorkouts", CountWorkouts(userId), 0),
                                  or("recentWorkouts", recent, <<>>),
                                  or("exercises", CountExercises(userId, cutoff), 0),
                                  or("sets", CountSets(userId, cutoff), 0))] :
        recent \in RecentQuery(userId) }

\* part_000:140-193 with the store failing the sub-queries of failed: the
\* await of a rejected promise throws out of the function, which has no catch.
getWorkoutSummaryAwait(userId, t, zone, failed) ==
  LET cutoff == thirtyDaysAgoStr(t, zone)
  IN  { LET all == PromiseAll(<<Settled("totalWorkouts", failed, CountWorkouts(userId)),
                                Settled("recentWorkouts", failed, recent),
                                Settled("exercises", failed, CountExercises(userId, cutoff)),
                                Settled("sets", failed, CountSets(userId, cutoff))>>)
        IN  IF all.rejected THEN [threw |-> TRUE, value |-> Null]
            ELSE [threw |-> FALSE,
                  value |-> WorkoutSummary(all.value[1], all.value[2],
                                           all.value[3], all.value[4])] :
        recent \in RecentQuery(userId) }

\* --------------------------------------------------------- server actions
\* auth(): the request's user id, or NullUser.
Sessions == Users \cup {NullUser}

\* A string error and a field-error map, the two shapes of {error}.
ErrorString(message) == [error |-> [message |-> message]]
FieldErrors(fields) == [error |-> [fieldErrors |-> fields]]
Data(value) == [data |-> value]

\* ui.md:260-264  workoutId: z.string().uuid(); name: min(1).max(100),
\* optional.  An id of the pool is a uuid; 0 stands for a string that is none.
updateWorkoutSchema(input) ==
  (IF input.workoutId \in WorkoutIds THEN {} ELSE {"workoutId"})
  \cup (IF input.name = "" THEN {"name"} ELSE {})

\* ui.md:266-268
deleteWorkoutSchema(input) ==
  IF input.workoutId \in WorkoutIds THEN {} ELSE {"workoutId"}

\* ui.md:254-258  name: min(1).max(100); date: /^\d{4}-\d{2}-\d{2}$/, with 0 for
\* a string of another shape.
createWorkoutSchema(input) ==
  (IF input.name = "" \/ input.name = Undefined THEN {"name"} ELSE {})
  \cup (IF input.date \in Dates THEN {} ELSE {"date"})

\* What a call wrote and returned: the three tables, the value returned to the
\* caller, whether the data layer was called, whether it threw, the value it
\* returned (Null too when it was not called or threw), and whether
\* revalidatePath("/dashboard") ran.
Outcome(ws, wes, ss, result, called, threw, returned, revalidated) ==
  [workouts |-> ws, workoutExercises |-> wes, sets |-> ss, result |-> result,
   called |-> called, threw |-> threw, returned |-> returned,
   revalidated |-> revalidated]

\* A return before the data layer is called.
Rejected(result) ==
  Outcome(workouts, workoutExercises, sets, result, FALSE, FALSE, Null, FALSE)

\* The catch block: the statement threw and wrote nothing.
Caught(result) ==
  Outcome(workouts, workoutExercises, sets, result, TRUE, TRUE, Null, FALSE)

\* The input validated before the session is looked at.
createWorkoutActionValidateFirst(userId, input, id, fault) ==
  IF createWorkoutSchema(input) # {}
  THEN Rejected(FieldErrors(createWorkoutSchema(input)))
  ELSE IF userId = NullUser THEN Rejected(ErrorString("Unauthorized"))
  ELSE IF fault THEN Caught(ErrorString("Failed to create workout"))
  ELSE LET r == createWorkout(userId, input, id)
       IN  Outcome(r.workouts, workoutExercises, sets, Data(r.returned),
                   TRUE, FALSE, r.returned, TRUE)

\* ui.md:276-298  fault: the insert throws.
createWorkoutAction(userId, input, id, fault) ==
  IF userId = NullUser THEN Rejected(ErrorString("Unauthorized"))
  ELSE IF createWorkoutSchema(input) # {}
  THEN Rejected(FieldErrors(createWorkoutSchema(input)))
  ELSE IF fault THEN Caught(ErrorString("Failed to create workout"))
  ELSE LET r == createWorkout(userId, input, id)
       IN  Outcome(r.workouts, workoutExercises, sets, Data(r.returned),
                   TRUE, FALSE, r.returned, TRUE)

\* The input passed to the data layer without safeParse.
updateWorkoutActionNoValidation(userId, input, fault) ==
  IF userId = NullUser THEN Rejected(ErrorString("Unauthorized"))
  ELSE IF fault THEN Caught(ErrorString("Failed to update workout"))
  ELSE LET r == updateWorkout(userId, input.workoutId, [name |-> input.name])
       IN  IF r.returned = Null
           THEN Outcome(r.workouts, workoutExercises, sets,
                        ErrorString("Workout not found"), TRUE, FALSE, Null, FALSE)
           ELSE Outcome(r.workouts, workoutExercises, sets, Data(r.returned),
                        TRUE, FALSE, r.returned, TRUE)

\* revalidatePath run right after the update returns, before the test of
\* its result.
updateWorkoutActionRevalidateFirst(userId, input, fault) ==
  IF userId = NullUser THEN Rejected(ErrorString("Unauthorized"))
  ELSE IF updateWorkoutSchema(input) # {}
  THEN Rejected(FieldErrors(updateWorkoutSchema(input)))
  ELSE IF fault THEN Caught(ErrorString("Failed to update workout"))
  ELSE LET r == updateWorkout(userId, input.workoutId, [name |-> input.name])
       IN  IF r.returned = Null
           THEN Outcome(r.workouts, workoutExercises, sets,
                        ErrorString("Workout not found"), TRUE, FALSE, Null, TRUE)
           ELSE Outcome(r.workouts, workoutExercises, sets, Data(r.returned),
                        TRUE, FALSE, r.returned, TRUE)

\* ui.md:300-325  fault: the update throws.
updateWorkoutAction(userId, input, fault) ==
  IF userId = NullUser THEN Rejected(ErrorString("Unauthorized"))
  ELSE IF updateWorkoutSchema(input) # {}
  THEN Rejected(FieldErrors(updateWorkoutSchema(input)))
  ELSE IF fault THEN Caught(ErrorString("Failed to update workout"))
  ELSE LET r == updateWorkout(userId, input.workoutId, [name |-> input.name])
       IN  IF r.returned = Null
           THEN Outcome(r.workouts, workoutExercises, sets,
                        ErrorString("Workout not found"), TRUE, FALSE, Null, FALSE)
           ELSE Outcome(r.workouts, workoutExercises, sets, Data(r.returned),
                        TRUE, FALSE, r.returned, TRUE)

\* The message of the error the store throws at a failed statement.
StoreErrorText == "update or delete on table violates foreign key constraint"

\* The catch block returning the caught error's message.
deleteWorkoutActionLeaksError(userId, input, fault) ==
  IF userId = NullUser THEN Rejected(ErrorString("Unauthorized"))
  ELSE IF deleteWorkoutSchema(input) # {}
  THEN Rejected(FieldErrors(deleteWorkoutSchema(input)))
  ELSE IF fault THEN Caught(ErrorString(StoreErrorText))
  ELSE LET r == deleteWorkout(userId, input.workoutId)
       IN  IF r.returned = Null
           THEN Outcome(r.workouts, r.workoutExercises, r.sets,
                        ErrorString("Workout not found"), TRUE, FALSE, Null, FALSE)
           ELSE Outcome(r.workouts, r.workoutExercises, r.sets,
                        Data([success |-> TRUE]), TRUE, FALSE, r.returned, TRUE)

\* ui.md:327-351  fault: the delete throws.
deleteWorkoutAction(userId, input, fault) ==
  IF userId = NullUser THEN Rejected(ErrorString("Unauthorized"))
  ELSE IF deleteWorkoutSchema(input) # {}
  THEN Rejected(FieldErrors(deleteWorkoutSchema(input)))
  ELSE IF fault THEN Caught(ErrorString("Failed to delete workout"))
  ELSE LET r == deleteWorkout(userId, input.workoutId)
       IN  IF r.returned = Null
           THEN Outcome(r.workouts, r.workoutExercises, r.sets,
                        ErrorString("Workout not found"), TRUE, FALSE, Null, FALSE)
           ELSE Outcome(r.workouts, r.workoutExercises, r.sets,
                        Data([success |-> TRUE]), TRUE, FALSE, r.returned, TRUE)

\* app/dashboard/actions.ts:31-100  the read action: auth() first; without a
\* user id it returns [] and runs no query, else the sequential fetches with
\* the session's user id.
getWorkoutsByDateAction(userId, date) ==
  IF userId = NullUser
  THEN { Outcome(workouts, workoutExercises, sets, <<>>, FALSE, FALSE, Null, FALSE) }
  ELSE { Outcome(workouts, workoutExercises, sets, r, TRUE, FALSE, Null, FALSE) :
         r \in getWorkoutsByDateSequential(userId, date) }

\* app/actions.ts:20-85  the read action: auth() first; without a user id it
\* returns null and runs no query, else the four queries with the session's
\* user id.
getWorkoutSummaryAction(userId, t, zone) ==
  IF userId = NullUser
  THEN { Outcome(workouts, workoutExercises, sets, Null, FALSE, FALSE, Null, FALSE) }
  ELSE { Outcome(workouts, workoutExercises, sets, r, TRUE, FALSE, Null, FALSE) :
         r \in getWorkoutSummary(userId, t, zone) }

\* What a request for the dashboard page did: the redirect target ("" for
\* none), whether getWorkoutsByDate was called, the user id and date passed
\* to it, and the workouts rendered.
PageOutcome(redirect, called, dataUserId, selectedDate, result) ==
  [redirect |-> redirect, called |-> called, dataUserId |-> dataUserId,
   selectedDate |-> selectedDate, result |-> result]

\* page.tsx:20  date || format(new Date(), "yyyy-MM-dd")
SelectedDate(searchParams, t, zone) ==
  IF "date" \in DOMAIN searchParams THEN searchParams.date ELSE LocalDay(t, zone)

\* The user id read from the query string when it carries one.
DashboardPageTrustsParams(userId, searchParams, t, zone) ==
  IF userId = NullUser THEN { PageOutcome("/", FALSE, NullUser, 0, <<>>) }
  ELSE LET selectedDate == SelectedDate(searchParams, t, zone)
           id == IF "userId" \in DOMAIN searchParams THEN searchParams.userId ELSE userId
       IN  { PageOutcome("", TRUE, id, selectedDate, r) :
             r \in getWorkoutsByDate(id, selectedDate) }

\* page.tsx:12-21  auth() first; without a user id redirect("/") ends the
\* request; else getWorkoutsByDate(userId, selectedDate) with the session's id.
DashboardPage(userId, searchParams, t, zone) ==
  IF userId = NullUser THEN { PageOutcome("/", FALSE, NullUser, 0, <<>>) }
  ELSE LET selectedDate == SelectedDate(searchParams, t, zone)
       IN  { PageOutcome("", TRUE, userId, selectedDate, r) :
             r \in getWorkoutsByDate(userId, selectedDate) }

\* ---------------------------------------------------------------- actions
StartDay == 32
NoCall == [op |-> "none"]

\* The seeded exercise catalog: a system entry and an entry created by B.
Catalog == { [id |-> 1, userId |-> NullUser], [id |-> 2, userId |-> "B"] }

Init ==
  /\ exercises = Catalog
  /\ workouts = {}
  /\ workoutExercises = {}
  /\ sets = {}
  /\ now = [day |-> StartDay, hour |-> 12]
  /\ tz = 0
  /\ last = NoCall

Apply(op, userId, args, out) ==
  /\ workouts' = out.workouts
  /\ workoutExercises' = out.workoutExercises
  /\ sets' = out.sets
  /\ last' = [op |-> op, userId |-> userId, args |-> args, result |-> out.result,
              called |-> out.called, threw |-> out.threw, returned |-> out.returned,
              revalidated |-> out.revalidated]
  /\ UNCHANGED <<exercises, now, tz>>

\* A row written to workout_exercises by any writer the schema admits.
InsertWorkoutExercise(workoutId, exerciseId, order) ==
  LET free == FreeIds(WorkoutExerciseIds, workoutExercises)
      row == [id |-> Min(free), workoutId |-> workoutId, exerciseId |-> exerciseId,
              order |-> order]
  IN  /\ free # {}
      /\ WorkoutExerciseForeignKeys(row, workouts, exercises)
      /\ workoutExercises' = workoutExercises \cup {row}
      /\ last' = NoCall
      /\ UNCHANGED <<exercises, workouts, sets, now, tz>>

\* A row written to sets by any writer the schema admits.
InsertSet(workoutExerciseId, setNumber, weight, reps) ==
  LET free == FreeIds(SetIds, sets)
      row == [id |-> Min(free), workoutExerciseId |-> workoutExerciseId,
              setNumber |-> setNumber, weight |-> weight, reps |-> reps]
  IN  /\ free # {}
      /\ SetForeignKeys(row, workoutExercises)
      /\ sets' = sets \cup {row}
      /\ last' = NoCall
      /\ UNCHANGED <<exercises, workouts, workoutExercises, now, tz>>

\* createWorkout called with a verified user id; id is the uuid the store draws.
CreateWorkout(userId, data, id) ==
  LET r == createWorkout(userId, data, id)
  IN  /\ id \notin {w.id : w \in workouts}
      /\ Apply("createWorkout", userId, data,
               Outcome(r.workouts, workoutExercises, sets, r.returned,
                       TRUE, FALSE, r.returned, FALSE))

CreateWorkoutAction(userId, input, fault) ==
  \E id \in FreeIds(WorkoutIds, workouts) :
    Apply("createWorkoutAction", userId, input,
          createWorkoutAction(userId, input, id, fault))

UpdateWorkoutAction(userId, input, fault) ==
  Apply("updateWorkoutAction", userId, input, updateWorkoutAction(userId, input, fault))

DeleteWorkoutAction(userId, input, fault) ==
  Apply("deleteWorkoutAction", userId, input, deleteWorkoutAction(userId, input, fault))

\* The number of statements createWorkoutWithExercises runs for data, and the
\* number of sets rows among them.
SetCount(data) ==
  LET n[i \in 0..Len(data.exercises)] ==
        IF i = 0 THEN 0 ELSE n[i - 1] + Len(data.exercises[i].sets)
  IN  n[Len(data.exercises)]
StatementCount(data) == 1 + Len(data.exercises) + SetCount(data)

CreateWorkoutWithExercises(userId, data, faultAt) ==
  /\ Cardinality(FreeIds(WorkoutExerciseIds, workoutExercises)) >= Len(data.exercises)
  /\ Cardinality(FreeIds(SetIds, sets)) >= SetCount(data)
  /\ faultAt <= StatementCount(data)
  /\ \E id \in FreeIds(WorkoutIds, workouts) :
       LET r == createWorkoutWithExercises(userId, data, id, faultAt)
       IN  Apply("createWorkoutWithExercises", userId,
                 [data |-> data, id |-> id, faultAt |-> faultAt],
                 Outcome(r.workouts, r.workoutExercises, r.sets, r.returned,
                         TRUE, r.threw, r.returned, FALSE))

Read(op, userId, args, result) ==
  /\ last' = [op |-> op, userId |-> userId, args |-> args, result |-> result]
  /\ UNCHANGED <<exercises, workouts, workoutExercises, sets, now, tz>>

GetWorkoutsByDate(userId, date) ==
  \E result \in getWorkoutsByDate(userId, date) :
    Read("getWorkoutsByDate", userId, [date |-> date], result)

GetWorkoutsByDateSequential(userId, date) ==
  \E result \in getWorkoutsByDateSequential(userId, date) :
    Read("getWorkoutsByDateSequential", userId, [date |-> date], result)

\* args records the server's calendar date at the call and the cutoff used.
GetWorkoutSummary(userId) ==
  \E result \in getWorkoutSummary(userId, now, tz) :
    Read("getWorkoutSummary", userId,
         [today |-> LocalDay(now, tz), cutoff |-> thirtyDaysAgoStr(now, tz)], result)

\* ------------------------------------------------- the read specification
\* Rows arrive in any order and with any ordering keys; both implementations
\* of getWorkoutsByDate read them.
Next ==
  \/ \E u \in Users, d \in Dates, id \in WorkoutIds :
       CreateWorkout(u, [name |-> "n1", date |-> d], id)
  \/ \E w \in WorkoutIds, e \in {x.id : x \in Catalog}, o \in Orders :
       InsertWorkoutExercise(w, e, o)
  \/ \E we \in WorkoutExerciseIds, n \in Orders, weight \in Weights, reps \in Reps :
       InsertSet(we, n, weight, reps)
  \/ \E u \in Users, d \in Dates : GetWorkoutsByDate(u, d)
  \/ \E u \in Users, d \in Dates : GetWorkoutsByDateSequential(u, d)

Spec == Init /\ [][Next]_vars

\* ------------------------------------------------------ getWorkoutsByDate
ReadOps == {"getWorkoutsByDate", "getWorkoutsByDateSequential"}
IsRead == last.op \in ReadOps

\* The stored rows a read for (userId, date) is about.
Matching(userId, date) == {w \in workouts : w.userId = userId /\ w.date = date}
ChildrenOf(workoutId) == {we \in workoutExercises : we.workoutId = workoutId}
SetsOf(workoutExerciseId) == {x \in sets : x.workoutExerciseId = workoutExerciseId}
Ascending(seq, key(_)) ==
  \A i, j \in DOMAIN seq : i < j => key(seq[i]) <= key(seq[j])

\* C1: the workouts returned by getWorkoutsByDate(u, d) are exactly the stored
\* workouts with ownerId = u and date = d, each once; none of another owner or
\* date, none missing, and the empty list when there is none.
C1_ExactlyOwnDate ==
  IsRead =>
    LET want == Matching(last.userId, last.args.date)
    IN  /\ {r.id : r \in Range(last.result)} = {w.id : w \in want}
        /\ Len(last.result) = Cardinality(want)
        /\ want = {} => last.result = <<>>

\* C1 witness: a read that returned a workout while a workout of another owner
\* on the same date was in the store.
C1_Witness ==
  /\ last.op = "getWorkoutsByDate"
  /\ last.result # <<>>
  /\ \E w \in workouts : w.userId # last.userId /\ w.date = last.args.date

\* C6: in every workout returned, exercises ascend by order and the sets of
\* every exercise ascend by setNumber.
C6_SortedChildren ==
  IsRead =>
    \A r \in Range(last.result) :
      /\ Ascending(r.exercises, LAMBDA e : e.order)
      /\ \A e \in Range(r.exercises) : Ascending(e.sets, LAMBDA x : x.setNumber)

\* C6 witness: a join read returned two exercises in ascending order of which
\* the later-inserted has the lower order, and two sets likewise.
C6_Witness ==
  /\ last.op = "getWorkoutsByDate"
  /\ \E r \in Range(last.result) :
       /\ \E i, j \in DOMAIN r.exercises :
            i < j /\ r.exercises[i].order < r.exercises[j].order
                  /\ r.exercises[i].id > r.exercises[j].id
       /\ \E e \in Range(r.exercises) : \E i, j \in DOMAIN e.sets :
            i < j /\ e.sets[i].setNumber < e.sets[j].setNumber
                  /\ e.sets[i].id > e.sets[j].id

\* C7: a matching workout without workout-exercises is in the result, with
\* exercises the empty list.
C7_EmptyWorkoutKept ==
  IsRead =>
    \A w \in Matching(last.userId, last.args.date) :
      ChildrenOf(w.id) = {} =>
        \E i \in DOMAIN last.result :
          /\ last.result[i].id = w.id
          /\ "exercises" \in DOMAIN last.result[i]
          /\ last.result[i].exercises = <<>>

\* C7 witness: a join read returned a workout without exercises next to one
\* with an exercise.
C7_Witness ==
  /\ last.op = "getWorkoutsByDate"
  /\ \E r \in Range(last.result) : r.exercises = <<>> /\ ChildrenOf(r.id) = {}
  /\ \E r \in Range(last.result) : r.exercises # <<>>

\* C8: the exercise entries of a returned workout are its stored
\* workout-exercises, each once, and the set entries of an exercise its stored
\* sets, each once; so a workout-exercise without sets has sets = <<>> and a
\* null part of a join row yields no entry.
C8_ChildrenExactlyOnce ==
  IsRead =>
    \A r \in Range(last.result) :
      /\ Len(r.exercises) = Cardinality(ChildrenOf(r.id))
      /\ { [id |-> e.id, order |-> e.order, exerciseId |-> e.exercise.id] :
           e \in Range(r.exercises) }
         = { [id |-> we.id, order |-> we.order, exerciseId |-> we.exerciseId] :
             we \in ChildrenOf(r.id) }
      /\ \A e \in Range(r.exercises) :
           /\ Len(e.sets) = Cardinality(SetsOf(e.id))
           /\ Range(e.sets) = { SetCols(x) : x \in SetsOf(e.id) }

\* C8 witness: a join read returned a workout without exercises, and a workout
\* with an exercise without sets and an exercise with two sets.
C8_Witness ==
  /\ last.op = "getWorkoutsByDate"
  /\ \E r \in Range(last.result) : r.exercises = <<>>
  /\ \E r \in Range(last.result) :
       /\ \E e \in Range(r.exercises) : e.sets = <<>>
       /\ \E e \in Range(r.exercises) : Len(e.sets) = 2

\* --------------------------------------------- the server-action specification
InvalidIds == {0}
UpdateInputs == [workoutId : WorkoutIds \cup InvalidIds, name : {"n2", "", Undefined}]
DeleteInputs == [workoutId : WorkoutIds \cup InvalidIds]
CreateInputs == [name : {"n1", ""}, date : {1, 0}]

NextActions ==
  \/ \E u \in Sessions, input \in CreateInputs, fault \in BOOLEAN :
       CreateWorkoutAction(u, input, fault)
  \/ \E u \in Sessions, input \in UpdateInputs, fault \in BOOLEAN :
       UpdateWorkoutAction(u, input, fault)
  \/ \E u \in Sessions, input \in DeleteInputs, fault \in BOOLEAN :
       DeleteWorkoutAction(u, input, fault)
  \/ \E w \in WorkoutIds : InsertWorkoutExercise(w, 1, 1)
  \/ \E we \in WorkoutExerciseIds, weight \in Weights, reps \in Reps :
       InsertSet(we, 1, weight, reps)

SpecActions == Init /\ [][NextActions]_vars

TargetMutations == {"updateWorkoutAction", "deleteWorkoutAction"}

\* C2: updateWorkoutAction or deleteWorkoutAction run for user A on a workout
\* owned by another user gets null from the data layer, returns
\* {error: "Workout not found"}, and leaves workouts, workout_exercises and
\* sets as they were.
C2_ForeignTargetNotFound ==
  [][ ( /\ last'.op \in TargetMutations
        /\ last'.called /\ ~last'.threw
        /\ \E w \in workouts : w.id = last'.args.workoutId /\ w.userId # last'.userId )
      => ( /\ last'.returned = Null
           /\ last'.result = ErrorString("Workout not found")
           /\ workouts' = workouts
           /\ workoutExercises' = workoutExercises
           /\ sets' = sets ) ]_vars

\* C2 witness: an update that asked for a new name was answered not-found while
\* the target, with a workout-exercise and a set, belongs to another user.
C2_Witness ==
  /\ last.op = "updateWorkoutAction"
  /\ last.args.name = "n2"
  /\ last.result = ErrorString("Workout not found")
  /\ \E w \in workouts :
       /\ w.id = last.args.workoutId /\ w.userId # last.userId /\ w.name = "n1"
       /\ \E we \in ChildrenOf(w.id) : SetsOf(we.id) # {}

\* C3: when the target is not a workout of the caller, the caller gets the
\* same value whether the id is absent or names another user's workout:
\* {error: "Workout not found"}, no revalidation, and no write.
C3_AbsentAndForeignAlike ==
  [][ ( /\ last'.op \in TargetMutations
        /\ last'.called /\ ~last'.threw
        /\ ~\E w \in workouts : w.id = last'.args.workoutId /\ w.userId = last'.userId )
      => ( /\ last'.result = ErrorString("Workout not found")
           /\ ~last'.revalidated
           /\ <<workouts, workoutExercises, sets>>' = <<workouts, workoutExercises, sets>> ) ]_vars

\* C3 witness: a delete was answered not-found for an id no workout has, while
\* another user's workout is in the store.
C3_Witness ==
  /\ last.op = "deleteWorkoutAction"
  /\ last.result = ErrorString("Workout not found")
  /\ ~\E w \in workouts : w.id = last.args.workoutId
  /\ \E w \in workouts : w.userId # last.userId

\* ------------------------------------------- the transaction specification
\* Exercise id 3 is a uuid no exercise has: its insert breaks the foreign key.
WholeWeights == {w \in InputWeights : w % 1000 = 0}
SetInputs == [weight : WholeWeights, reps : Reps]
SetLists == {<<>>} \cup {<<a>> : a \in SetInputs} \cup {<<a, b>> : a, b \in SetInputs}
ExerciseInputs == [exerciseId : {1, 3}, sets : SetLists]
WorkoutInputs ==
  [name : {"n1"}, date : {1},
   exercises : {<<>>} \cup {<<a>> : a \in ExerciseInputs}
               \cup {<<a, b>> : a, b \in ExerciseInputs}]

NextTx ==
  \/ \E u \in Users, data \in WorkoutInputs,
        faultAt \in 0..(1 + MaxWorkoutExercises + MaxSets) :
       CreateWorkoutWithExercises(u, data, faultAt)
  \/ \E u \in Users, w \in WorkoutIds :
       DeleteWorkoutAction(u, [workoutId |-> w], FALSE)

SpecTx == Init /\ [][NextTx]_vars

\* The rows a committed createWorkoutWithExercises(userId, data) added: the
\* workout, one workout-exercise per submitted exercise with its exerciseId,
\* and under each as many sets as were submitted for it.
Added(old, new) == new \ old
Injective(f) == \A i, j \in DOMAIN f : f[i] = f[j] => i = j
AllSubmittedPresent(userId, data, id) ==
  /\ workouts' = workouts \cup { [id |-> id, userId |-> userId, name |-> data.name,
                                  date |-> data.date] }
  /\ id \notin {w.id : w \in workouts}
  /\ workoutExercises \subseteq workoutExercises'
  /\ sets \subseteq sets'
  /\ \E f \in [DOMAIN data.exercises -> WorkoutExerciseIds] :
       /\ Injective(f)
       /\ {we.id : we \in Added(workoutExercises, workoutExercises')} = Range(f)
       /\ \A i \in DOMAIN f :
            /\ \E we \in Added(workoutExercises, workoutExercises') :
                 we.id = f[i] /\ we.workoutId = id
                              /\ we.exerciseId = data.exercises[i].exerciseId
            /\ Cardinality({x \in Added(sets, sets') : x.workoutExerciseId = f[i]})
               = Len(data.exercises[i].sets)
  /\ Cardinality(Added(sets, sets')) = SetCount(data)

\* C5: a createWorkoutWithExercises call in which an insert failed leaves
\* workouts, workout_exercises and sets as they were before the call; a call
\* that succeeded added every submitted row.
C5_AllOrNothing ==
  [][ last'.op = "createWorkoutWithExercises"
      => IF last'.threw
         THEN <<workouts, workoutExercises, sets>>' = <<workouts, workoutExercises, sets>>
         ELSE AllSubmittedPresent(last'.userId, last'.args.data, last'.args.id) ]_vars

\* C5 witness: a call with at least one exercise and one set failed at its
\* last insert, after the workout and a workout-exercise had been inserted.
C5_Witness ==
  /\ last.op = "createWorkoutWithExercises"
  /\ last.threw
  /\ SetCount(last.args.data) >= 1
  /\ last.args.faultAt = StatementCount(last.args.data)

\* ----------------------------------------------- the summary specification
\* The server runs in one of three time zones and its clock advances; both
\* users' rows come and go in any order.
TimeZones == {0 - 5, 0, 10}
TickHours == 9
MaxClockDays == 1

InitSummary ==
  /\ exercises = Catalog
  /\ workouts = {}
  /\ workoutExercises = {}
  /\ sets = {}
  /\ now = [day |-> StartDay, hour |-> 3]
  /\ tz \in TimeZones
  /\ last = NoCall

Tick ==
  LET hours == now.day * HoursPerDay + now.hour + TickHours
  IN  /\ hours \div HoursPerDay <= StartDay + MaxClockDays
      /\ now' = [day |-> hours \div HoursPerDay, hour |-> hours % HoursPerDay]
      /\ UNCHANGED <<exercises, workouts, workoutExercises, sets, tz, last>>

NextSummary ==
  \/ \E u \in Users, d \in Dates, id \in WorkoutIds :
       CreateWorkout(u, [name |-> "n1", date |-> d], id)
  \/ \E w \in WorkoutIds : InsertWorkoutExercise(w, 1, 1)
  \/ \E we \in WorkoutExerciseIds, weight \in Weights, reps \in Reps :
       InsertSet(we, 1, weight, reps)
  \/ Tick
  \/ \E u \in Users : GetWorkoutSummary(u)

SpecSummary == InitSummary /\ [][NextSummary]_vars

IsSummary == last.op = "getWorkoutSummary"

\* The rows rooted at the workouts of userId.
OwnWorkouts(userId) == {w \in workouts : w.userId = userId}
OwnWorkoutExercises(userId) ==
  {we \in workoutExercises : \E w \in OwnWorkouts(userId) : w.id = we.workoutId}
OwnSets(userId) ==
  {x \in sets : \E we \in OwnWorkoutExercises(userId) : we.id = x.workoutExerciseId}
DateOfWorkoutExercise(we) == (CHOOSE w \in workouts : w.id = we.workoutId).date
DateOfSet(x) ==
  DateOfWorkoutExercise(CHOOSE we \in workoutExercises : we.id = x.workoutExerciseId)
MaxDateOf(ws) == CHOOSE d \in {w.date : w \in ws} : \A w \in ws : w.date <= d

\* C4: the summary returned for user A is determined by the rows rooted at
\* A's workouts (and the cutoff of the call): every field is a function of
\* those rows alone, whatever rows other users have.
C4_SummaryOfOwnRowsOnly ==
  IsSummary =>
    LET u == last.userId
        r == last.result
    IN  /\ r.totalWorkouts = Cardinality(OwnWorkouts(u))
        /\ r.totalExercises =
             Cardinality({we \in OwnWorkoutExercises(u) :
                            DateOfWorkoutExercise(we) >= last.args.cutoff})
        /\ r.totalSets =
             Cardinality({x \in OwnSets(u) : DateOfSet(x) >= last.args.cutoff})
        /\ Range(r.recentWorkouts) \subseteq {WorkoutCols(w) : w \in OwnWorkouts(u)}
        /\ Len(r.recentWorkouts) = Cardinality(Range(r.recentWorkouts))
        /\ r.lastWorkoutDate =
             IF OwnWorkouts(u) = {} THEN <<>> ELSE <<MaxDateOf(OwnWorkouts(u))>>

\* C4 witness: a summary with a set counted was returned while another user
\* has a workout with a workout-exercise and a set inside the window.
C4_Witness ==
  /\ IsSummary
  /\ last.result.totalSets >= 1
  /\ \E w \in workouts :
       /\ w.userId # last.userId /\ w.date >= last.args.cutoff
       /\ \E we \in ChildrenOf(w.id) : SetsOf(we.id) # {}

\* C9: totalExercises and totalSets count the workout-exercises and sets of
\* the user's workouts dated on or after D - 30, D being the server's calendar
\* date at the call.
C9_WindowFromCalendarDate ==
  IsSummary =>
    LET u == last.userId
        from == last.args.today - WindowDays
    IN  /\ last.result.totalExercises =
             Cardinality({we \in OwnWorkoutExercises(u) : DateOfWorkoutExercise(we) >= from})
        /\ last.result.totalSets =
             Cardinality({x \in OwnSets(u) : DateOfSet(x) >= from})

\* ---------------------------------------- the recent-workouts specification
\* More workouts than the limit of the recent-workouts query.
MaxRecentWorkouts == 6
RecentWorkoutIds == 1..MaxRecentWorkouts

NextRecent ==
  \/ \E u \in Users, d \in Dates :
       /\ FreeIds(RecentWorkoutIds, workouts) # {}
       /\ CreateWorkout(u, [name |-> "n1", date |-> d],
                        Min(FreeIds(RecentWorkoutIds, workouts)))
  \/ \E u \in Users : GetWorkoutSummary(u)

SpecRecent == Init /\ [][NextRecent]_vars

\* C10: for a user with n workouts recentWorkouts has min(5, n) entries, at
\* most 5, all different workouts of the user, ordered by date descending, and
\* no workout of the user left out is dated later than one included.
C10_FiveMostRecent ==
  IsSummary =>
    LET own == OwnWorkouts(last.userId)
        n == Cardinality(own)
        recent == last.result.recentWorkouts
    IN  /\ Len(recent) = IF n < RecentLimit THEN n ELSE RecentLimit
        /\ Len(recent) <= RecentLimit
        /\ Range(recent) \subseteq {WorkoutCols(w) : w \in own}
        /\ Cardinality({r.id : r \in Range(recent)}) = Len(recent)
        /\ \A i, j \in DOMAIN recent : i < j => recent[i].date >= recent[j].date
        /\ \A w \in own : w.id \notin {r.id : r \in Range(recent)} =>
             \A r \in Range(recent) : w.date <= r.date

\* C10 witness: for a user with six workouts five were returned, of two
\* different dates, and the one left out is older than one returned.
C10_Witness ==
  /\ IsSummary
  /\ Cardinality(OwnWorkouts(last.userId)) > RecentLimit
  /\ Len(last.result.recentWorkouts) = RecentLimit
  /\ \E w \in OwnWorkouts(last.userId) :
       /\ w.id \notin {r.id : r \in Range(last.result.recentWorkouts)}
       /\ \E r \in Range(last.result.recentWorkouts) : w.date < r.date

\* C11: lastWorkoutDate is the date of the first entry of recentWorkouts, which
\* is the latest date of all the user's workouts, and it is null exactly when
\* the user has no workouts.
C11_LastWorkoutDate ==
  IsSummary =>
    LET own == OwnWorkouts(last.userId)
        r == last.result
    IN  /\ r.lastWorkoutDate =
             IF r.recentWorkouts = <<>> THEN <<>> ELSE <<r.recentWorkouts[1].date>>
        /\ own # {} => r.lastWorkoutDate = <<MaxDateOf(own)>>
        /\ (r.lastWorkoutDate = <<>>) <=> (own = {})

\* C11 witness: a summary of more workouts than the limit, of two dates, whose
\* lastWorkoutDate is the later date although a workout of the earlier date was
\* created last.
C11_Witness ==
  /\ IsSummary
  /\ Cardinality(OwnWorkouts(last.userId)) > RecentLimit
  /\ last.result.lastWorkoutDate = <<2>>
  /\ \E w, v \in OwnWorkouts(last.userId) : w.date = 1 /\ v.date = 2 /\ w.id > v.id

\* C12: totalWorkouts is the number of workouts the user owns, of any date; the
\* summary of a user without workouts is totalWorkouts = 0, recentWorkouts
\* empty, lastWorkoutDate null, totalExercises = 0 and totalSets = 0.
C12_TotalWorkouts ==
  IsSummary =>
    LET own == OwnWorkouts(last.userId)
    IN  /\ last.result.totalWorkouts = Cardinality(own)
        /\ own = {} =>
             last.result = [totalWorkouts |-> 0, totalExercises |-> 0, totalSets |-> 0,
                            recentWorkouts |-> <<>>, lastWorkoutDate |-> <<>>]

\* C12 witness: the summary of a user without workouts was returned while the
\* other user has a workout inside the window with a workout-exercise and a set.
C12_Witness ==
  /\ IsSummary
  /\ OwnWorkouts(last.userId) = {}
  /\ last.result.totalWorkouts = 0
  /\ \E w \in workouts :
       /\ w.date >= last.args.cutoff
       /\ \E we \in ChildrenOf(w.id) : SetsOf(we.id) # {}

\* ------------------------------------- the failing-sub-query specification
\* getWorkoutSummary runs while the store fails any subset of its sub-queries.
GetWorkoutSummaryAwait(userId, failed) ==
  \E out \in getWorkoutSummaryAwait(userId, now, tz, failed) :
    /\ last' = [op |-> "getWorkoutSummary", userId |-> userId,
                args |-> [failed |-> failed], threw |-> out.threw, result |-> out.value]
    /\ UNCHANGED <<exercises, workouts, workoutExercises, sets, now, tz>>

NextFaults ==
  \/ \E u \in Users, d \in Dates, id \in WorkoutIds :
       CreateWorkout(u, [name |-> "n1", date |-> d], id)
  \/ \E w \in WorkoutIds : InsertWorkoutExercise(w, 1, 1)
  \/ \E we \in WorkoutExerciseIds, weight \in Weights, reps \in Reps :
       InsertSet(we, 1, weight, reps)
  \/ \E u \in Users, failed \in SUBSET SubQueries : GetWorkoutSummaryAwait(u, failed)

SpecFaults == Init /\ [][NextFaults]_vars

SummaryFields ==
  {"totalWorkouts", "totalExercises", "totalSets", "recentWorkouts", "lastWorkoutDate"}

\* C13: when a sub-query of getWorkoutSummary fails the call throws and no
\* summary is returned, whichever other sub-queries succeeded; a summary is
\* returned only when all four succeeded.
C13_SubQueryFailureFailsCall ==
  IsSummary =>
    /\ last.args.failed # {} => last.threw /\ last.result = Null
    /\ last.args.failed = {} => ~last.threw /\ DOMAIN last.result = SummaryFields

\* C13 witness: a call whose sets count alone failed threw, while the user has
\* a workout, a workout-exercise and a set the other sub-queries would report.
C13_Witness ==
  /\ IsSummary
  /\ last.args.failed = {"sets"}
  /\ last.threw
  /\ OwnSets(last.userId) # {}

\* ----------------------------------------------- the cascade specification
\* Workouts with children are created, deleted by either user, and read.
NextCascade ==
  \/ \E u \in Users, id \in WorkoutIds : CreateWorkout(u, [name |-> "n1", date |-> 1], id)
  \/ \E w \in WorkoutIds : InsertWorkoutExercise(w, 1, 1)
  \/ \E we \in WorkoutExerciseIds, weight \in Weights, reps \in Reps :
       InsertSet(we, 1, weight, reps)
  \/ \E u \in Users, w \in WorkoutIds : DeleteWorkoutAction(u, [workoutId |-> w], FALSE)
  \/ \E u \in Users : GetWorkoutsByDate(u, 1)

SpecCascade == Init /\ [][NextCascade]_vars

\* Every workout-exercise references a stored workout and every set a stored
\* workout-exercise.
ReferentialIntegrity ==
  /\ \A we \in workoutExercises : \E w \in workouts : w.id = we.workoutId
  /\ \A x \in sets : \E we \in workoutExercises : we.id = x.workoutExerciseId

\* Every exercise and set entry of a read result is a stored row under a
\* stored workout.
ReadShowsStoredRows ==
  IsRead =>
    \A r \in Range(last.result) :
      /\ \E w \in workouts : w.id = r.id
      /\ \A e \in Range(r.exercises) :
           /\ \E we \in workoutExercises : we.id = e.id /\ we.workoutId = r.id
           /\ \A x \in Range(e.sets) :
                \E y \in sets : y.id = x.id /\ y.workoutExerciseId = e.id

\* C14: a deleteWorkout that deleted the workout leaves no workout-exercise of
\* it and no set of those workout-exercises in the store, and no read shows a
\* row that is not stored; in every state each workout-exercise references a
\* stored workout and each set a stored workout-exercise.
C14_DeleteCascades ==
  /\ [](ReferentialIntegrity /\ ReadShowsStoredRows)
  /\ [][ (last'.op = "deleteWorkoutAction" /\ last'.called /\ last'.returned # Null)
         => LET id == last'.args.workoutId
                gone == {we.id : we \in ChildrenOf(id)}
            IN  /\ \A w \in workouts' : w.id # id
                /\ \A we \in workoutExercises' : we.workoutId # id
                /\ \A x \in sets' : x.workoutExerciseId \notin gone
                /\ workouts' = {w \in workouts : w.id # id}
                /\ workoutExercises' = {we \in workoutExercises : we.workoutId # id}
                /\ sets' = {x \in sets : x.workoutExerciseId \notin gone} ]_vars

\* C14 witness: a delete succeeded and the first workout-exercise and the first
\* set ever inserted are gone, while a later workout-exercise and set, of the
\* other workout, are still stored.
C14_Witness ==
  /\ last.op = "deleteWorkoutAction"
  /\ last.called /\ last.returned # Null
  /\ {we.id : we \in workoutExercises} = {2}
  /\ {x.id : x \in sets} = {2}

\* ---------------------------------------------- the restrict specification
\* A DELETE of one exercise row, run by any writer the schema admits.
DeleteExercise(exerciseId) ==
  LET r == deleteExercise(exerciseId)
  IN  /\ exercises' = r.exercises
      /\ workoutExercises' = r.workoutExercises
      /\ sets' = r.sets
      /\ last' = [op |-> "deleteExercise", args |-> [exerciseId |-> exerciseId],
                  threw |-> r.threw]
      /\ UNCHANGED <<workouts, now, tz>>

NextRestrict ==
  \/ \E u \in Users, id \in WorkoutIds : CreateWorkout(u, [name |-> "n1", date |-> 1], id)
  \/ \E w \in WorkoutIds, e \in {x.id : x \in Catalog} : InsertWorkoutExercise(w, e, 1)
  \/ \E we \in WorkoutExerciseIds, weight \in Weights, reps \in Reps :
       InsertSet(we, 1, weight, reps)
  \/ \E e \in {x.id : x \in Catalog} : DeleteExercise(e)

SpecRestrict == Init /\ [][NextRestrict]_vars

\* C15: a delete of an exercise that a workout-exercise references is
\* rejected, and exercises, workouts, workout_exercises and sets are after the
\* attempt what they were before it.
C15_ReferencedExerciseKept ==
  [][ ( /\ last'.op = "deleteExercise"
        /\ \E we \in workoutExercises : we.exerciseId = last'.args.exerciseId )
      => ( /\ last'.threw
           /\ exercises' = exercises
           /\ workouts' = workouts
           /\ workoutExercises' = workoutExercises
           /\ sets' = sets ) ]_vars

\* C15 witness: a delete of an exercise was rejected while a workout-exercise
\* with a set references it, after the other exercise had been deleted.
C15_Witness ==
  /\ last.op = "deleteExercise"
  /\ last.threw
  /\ \E we \in workoutExercises :
       we.exerciseId = last.args.exerciseId /\ SetsOf(we.id) # {}
  /\ \E e \in exercises : e.id = last.args.exerciseId
  /\ Cardinality(exercises) = 1

\* ------------------------------------------------ the session specification
\* Every server action is called with and without a session, the mutations
\* with valid and invalid input.
GetWorkoutsByDateAction(userId, date) ==
  \E out \in getWorkoutsByDateAction(userId, date) :
    Apply("getWorkoutsByDateAction", userId, [date |-> date], out)

GetWorkoutSummaryAction(userId) ==
  \E out \in getWorkoutSummaryAction(userId, now, tz) :
    Apply("getWorkoutSummaryAction", userId, [today |-> LocalDay(now, tz)], out)

NextSession ==
  \/ \E u \in Sessions, input \in CreateInputs : CreateWorkoutAction(u, input, FALSE)
  \/ \E u \in Sessions, input \in UpdateInputs : UpdateWorkoutAction(u, input, FALSE)
  \/ \E u \in Sessions, input \in DeleteInputs : DeleteWorkoutAction(u, input, FALSE)
  \/ \E w \in WorkoutIds : InsertWorkoutExercise(w, 1, 1)
  \/ \E we \in WorkoutExerciseIds, weight \in Weights, reps \in Reps :
       InsertSet(we, 1, weight, reps)
  \/ \E u \in Sessions, d \in Dates : GetWorkoutsByDateAction(u, d)
  \/ \E u \in Sessions : GetWorkoutSummaryAction(u)

SpecSession == Init /\ [][NextSession]_vars

MutationActions == {"createWorkoutAction", "updateWorkoutAction", "deleteWorkoutAction"}
ReadActions == {"getWorkoutsByDateAction", "getWorkoutSummaryAction"}

GenericMessage ==
  [createWorkoutAction |-> "Failed to create workout",
   updateWorkoutAction |-> "Failed to update workout",
   deleteWorkoutAction |-> "Failed to delete workout"]

SchemaErrors(op, input) ==
  CASE op = "createWorkoutAction" -> createWorkoutSchema(input)
    [] op = "updateWorkoutAction" -> updateWorkoutSchema(input)
    [] op = "deleteWorkoutAction" -> deleteWorkoutSchema(input)

VisibilityInputs ==
  [name : {"n1"}, date : {1},
   exercises : {<<>>} \cup { <<[exerciseId |-> e, sets |-> l]>> :
                             e \in {x.id : x \in Catalog},
                             l \in {<<>>} \cup {<<a>> : a \in SetInputs} }]

NextVisibility ==
  \/ \E u \in Users, data \in VisibilityInputs : CreateWorkoutWithExercises(u, data, 0)
  \/ \E u \in Users, w \in WorkoutIds : DeleteWorkoutAction(u, [workoutId |-> w], FALSE)
  \/ \E u \in Users, d \in Dates : GetWorkoutsByDate(u, d)
  \/ \E u \in Users, d \in Dates : GetWorkoutsByDateSequential(u, d)

SpecVisibility == Init /\ [][NextVisibility]_vars

\* part_002:9  the owner of a stored exercise: NullUser for a system entry.
OwnerOfExercise(exerciseId) == (CHOOSE e \in exercises : e.id = exerciseId).userId

\* C19: every exercise embedded in a read result for user u is a system entry
\* or an entry owned by u.
C19_OnlyVisibleExercises ==
  IsRead =>
    \A r \in Range(last.result) : \A e \in Range(r.exercises) :
      OwnerOfExercise(e.exercise.id) \in {NullUser, last.userId}

\* ------------------------------------------------ the request specification
\* Requests arrive with or without a session; what the caller supplies (the
\* action's input, the page's query string) may carry a user id of its own.
DashboardPageRequest(userId, searchParams) ==
  \E out \in DashboardPage(userId, searchParams, now, tz) :
    /\ last' = [op |-> "DashboardPage", userId |-> userId, args |-> searchParams,
                redirect |-> out.redirect, called |-> out.called,
                dataUserId |-> out.dataUserId, selectedDate |-> out.selectedDate,
                result |-> out.result]
    /\ UNCHANGED <<exercises, workouts, workoutExercises, sets, now, tz>>

SearchParams == [userId : Users] \cup [userId : Users, date : Dates]
ForgedCreateInputs == [name : {"n1"}, date : Dates, userId : Users]
ForgedUpdateInputs == [workoutId : WorkoutIds, name : {"n2"}, userId : Users]
ForgedDeleteInputs == [workoutId : WorkoutIds, userId : Users]

NextRequests ==
  \/ \E u \in Sessions, input \in ForgedCreateInputs : CreateWorkoutAction(u, input, FALSE)
  \/ \E u \in Sessions, input \in ForgedUpdateInputs : UpdateWorkoutAction(u, input, FALSE)
  \/ \E u \in Sessions, input \in ForgedDeleteInputs : DeleteWorkoutAction(u, input, FALSE)
  \/ \E u \in Sessions, params \in SearchParams : DashboardPageRequest(u, params)
  \/ \E u \in Sessions, d \in Dates : GetWorkoutsByDateAction(u, d)
  \/ \E u \in Sessions : GetWorkoutSummaryAction(u)

SpecRequests == Init /\ [][NextRequests]_vars

OwnerOfWorkout(ws, workoutId) == (CHOOSE w \in ws : w.id = workoutId).userId

\* C20: the data layer works for the user id auth resolved for the request,
\* whatever user id the caller supplied: the page passes the session's id to
\* getWorkoutsByDate and renders that user's workouts, a request for the page
\* without a session redirects and does not call getWorkoutsByDate, and the
\* rows an action creates, changes, deletes or returns are the session user's.
C20_UserIdFromAuthOnly ==
  [][ /\ last'.op = "DashboardPage" =>
           /\ last'.userId = NullUser => last'.redirect = "/" /\ ~last'.called
           /\ last'.called =>
                /\ last'.dataUserId = last'.userId
                /\ {r.id : r \in Range(last'.result)}
                     = {w.id : w \in Matching(last'.userId, last'.selectedDate)}
      /\ (last'.op \in MutationActions /\ last'.called) =>
           /\ last'.userId # NullUser
           /\ \A w \in workouts' \ workouts : w.userId = last'.userId
           /\ \A w \in workouts \ workouts' : w.userId = last'.userId
      /\ (last'.op \in ReadActions /\ last'.called) =>
           /\ last'.userId # NullUser
           /\ last'.op = "getWorkoutsByDateAction" =>
                \A r \in Range(last'.result) : OwnerOfWorkout(workouts, r.id) = last'.userId
           /\ last'.op = "getWorkoutSummaryAction" =>
                \A r \in Range(last'.result.recentWorkouts) :
                  OwnerOfWorkout(workouts, r.id) = last'.userId ]_vars

\* C20 witness: the page, requested in a session with another user's id in
\* the query string, called getWorkoutsByDate with the session's id and
\* rendered a workout, while that other user has a workout on the same date.
C20_Witness ==
  /\ last.op = "DashboardPage"
  /\ last.called
  /\ last.args.userId # last.userId
  /\ last.dataUserId = last.userId
  /\ last.result # <<>>
  /\ Matching(last.args.userId, last.selectedDate) # {}

\* ------------------------------------------------------- position indexes
\* C21: a committed createWorkoutWithExercises with k exercises stored the
\* i-th submitted exercise with order = i and the j-th submitted set of it
\* with setNumber = j (the input has no field to supply either), so the
\* orders of the created workout are 1..k, each once.
C21_PositionIndexes ==
  [][ (last'.op = "createWorkoutWithExercises" /\ ~last'.threw)
      => LET data == last'.args.data
             new == Added(workoutExercises, workoutExercises')
         IN  /\ {we.order : we \in new} = 1..Len(data.exercises)
             /\ Cardinality(new) = Len(data.exercises)
             /\ \A we \in new :
                  LET ss == {x \in Added(sets, sets') : x.workoutExerciseId = we.id}
                      submitted == data.exercises[we.order]
                  IN  /\ we.workoutId = last'.args.id
                      /\ we.exerciseId = submitted.exerciseId
                      /\ {x.setNumber : x \in ss} = 1..Len(submitted.sets)
                      /\ Cardinality(ss) = Len(submitted.sets)
                      /\ \A x \in ss :
                           /\ x.reps = submitted.sets[x.setNumber].reps
                           /\ x.weight = NumericToString[submitted.sets[x.setNumber].weight] ]_vars

\* C21 witness: a call with two exercises, the first with two sets, committed:
\* its workout has the orders 1 and 2 and the first exercise the set numbers
\* 1 and 2.
C21_Witness ==
  /\ last.op = "createWorkoutWithExercises"
  /\ ~last.threw
  /\ Len(last.args.data.exercises) = 2
  /\ {we.order : we \in ChildrenOf(last.args.id)} = {1, 2}
  /\ \E we \in ChildrenOf(last.args.id) :
       we.order = 1 /\ {x.setNumber : x \in SetsOf(we.id)} = {1, 2}

\* ---------------------------------------------------------- ties on order
\* In Spec, rows are only inserted and ids are drawn ascending, so of two
\* workout_exercises rows the one with the smaller id was inserted first.
InsertedBefore(a, b) == a.id < b.id

\* C22: two workout-exercises of one workout with equal order come back from
\* getWorkoutsByDate in insertion order, the earlier-inserted first.
C22_TiesInInsertionOrder ==
  last.op = "getWorkoutsByDate"
    => \A k \in DOMAIN last.result :
         LET list == last.result[k].exercises
         IN  \A i, j \in DOMAIN list :
               (i < j /\ list[i].order = list[j].order)
                 => InsertedBefore(list[i], list[j])

\* ------------------------------------------- the failing-read specification
\* The store fails the failAt-th query a read issues (0: none).  A read that
\* threw returned nothing, else it returned one value: returned is {} or {v}.
Threw == [threw |-> TRUE, returned |-> {}]
Returned(value) == [threw |-> FALSE, returned |-> {value}]

\* part_000:104-135  the join implementation issues one query; the await of a
\* failed query throws out of the function, which has no catch.
getWorkoutsByDateAwait(userId, date, failAt) ==
  { IF failAt = 1 THEN Threw ELSE Returned(r) : r \in getWorkoutsByDate(userId, date) }

\* dashboard/actions.ts:39-92  the queries a call returning result issued: the
\* workouts query, one exercises query per workout and one sets query per
\* exercise (none after an empty workouts result).
RECURSIVE ExerciseCount(_)
ExerciseCount(result) ==
  IF result = <<>> THEN 0 ELSE Len(Head(result).exercises) + ExerciseCount(Tail(result))
QueryCount(result) == 1 + Len(result) + ExerciseCount(result)

\* The read with a catch that answers a failed query with the empty list.
getWorkoutsByDateCatch(userId, date, failAt) ==
  IF userId = NullUser THEN { Returned(<<>>) }
  ELSE { IF failAt \in 1..QueryCount(r) THEN Returned(<<>>) ELSE Returned(r) :
         r \in getWorkoutsByDateSequential(userId, date) }

\* dashboard/actions.ts:31-100  the sequential read: [] without a session
\* before any query; every query is awaited outside any try, so the first
\* failed one throws out of the function.
getWorkoutsByDateSequentialAwait(userId, date, failAt) ==
  IF userId = NullUser THEN { Returned(<<>>) }
  ELSE { IF failAt \in 1..QueryCount(r) THEN Threw ELSE Returned(r) :
         r \in getWorkoutsByDateSequential(userId, date) }

FailAts == 0..(1 + MaxWorkouts + MaxWorkoutExercises)

ReadAwait(op, userId, args, out) ==
  /\ last' = [op |-> op, userId |-> userId, args |-> args,
              threw |-> out.threw, returned |-> out.returned]
  /\ UNCHANGED <<exercises, workouts, workoutExercises, sets, now, tz>>

GetWorkoutsByDateAwait(userId, date, failAt) ==
  \E out \in getWorkoutsByDateAwait(userId, date, failAt) :
    ReadAwait("getWorkoutsByDate", userId,
              [date |-> date, failed |-> failAt = 1], out)

GetWorkoutsByDateSequentialAwait(userId, date, failAt) ==
  \E r \in getWorkoutsByDateSequential(userId, date) :
    \E out \in getWorkoutsByDateSequentialAwait(userId, date, failAt) :
      /\ out.returned \subseteq {r}
      /\ ReadAwait("getWorkoutsByDateSequential", userId,
                   [date |-> date,
                    failed |-> userId # NullUser /\ failAt \in 1..QueryCount(r)], out)

GetWorkoutSummaryFailing(userId, failed) ==
  \E out \in getWorkoutSummaryAwait(userId, now, tz, failed) :
    ReadAwait("getWorkoutSummary", userId, [failed |-> failed # {}],
              IF out.threw THEN Threw ELSE Returned(out.value))

NextReadFaults ==
  \/ \E u \in Users, d \in Dates, id \in WorkoutIds :
       CreateWorkout(u, [name |-> "n1", date |-> d], id)
  \/ \E w \in WorkoutIds : InsertWorkoutExercise(w, 1, 1)
  \/ \E we \in WorkoutExerciseIds, weight \in Weights, reps \in Reps :
       InsertSet(we, 1, weight, reps)
  \/ \E u \in Users, d \in Dates, f \in 0..1 : GetWorkoutsByDateAwait(u, d, f)
  \/ \E u \in Sessions, d \in Dates, f \in FailAts :
       GetWorkoutsByDateSequentialAwait(u, d, f)
  \/ \E u \in Users, failed \in SUBSET SubQueries : GetWorkoutSummaryFailing(u, failed)

SpecReadFaults == Init /\ [][NextReadFaults]_vars

FailingReads == {"getWorkoutsByDate", "getWorkoutsByDateSequential", "getWorkoutSummary"}

\* C23: a read during which the store failed a query threw and returned
\* nothing; so a returned empty list means no workout of the user has the
\* date, and a returned summary with totalWorkouts = 0 means the user has no
\* workout.
C23_ReadFailurePropagates ==
  last.op \in FailingReads =>
    /\ last.args.failed => last.threw /\ last.returned = {}
    /\ ~last.args.failed => ~last.threw /\ Cardinality(last.returned) = 1
    /\ (last.op # "getWorkoutSummary" /\ last.returned = {<<>>})
         => {w \in OwnWorkouts(last.userId) : w.date = last.args.date} = {}
    /\ (last.op = "getWorkoutSummary"
        /\ \E s \in last.returned : s.totalWorkouts = 0)
         => OwnWorkouts(last.userId) = {}

\* C23 witness: the sequential read threw on a failed query while the user
\* has a workout with an exercise and a set on the date.
C23_Witness ==
  /\ last.op = "getWorkoutsByDateSequential"
  /\ last.args.failed
  /\ last.threw
  /\ \E w \in OwnWorkouts(last.userId) :
       /\ w.date = last.args.date
       /\ \E we \in ChildrenOf(w.id) : SetsOf(we.id) # {}

\* ---------------------------------------------------------- revalidatePath
\* The workout of userId that a mutation action's input names in the store
\* before the call, if any.
TargetOf(userId, input) == {w \in workouts : w.id = input.workoutId /\ w.userId = userId}

\* The data-layer mutation of the action last' records took effect in the
\* step: the insert added the workout it returned, the update or delete found
\* the caller's workout and the store holds the updated row or no such row.
MutationSucceeded ==
  /\ last'.userId # NullUser
  /\ SchemaErrors(last'.op, last'.args) = {}
  /\ last'.called /\ ~last'.threw
  /\ CASE last'.op = "createWorkoutAction" ->
            /\ last'.returned \in workouts' \ workouts
            /\ last'.returned.userId = last'.userId
       [] last'.op = "updateWorkoutAction" ->
            /\ TargetOf(last'.userId, last'.args) # {}
            /\ last'.returned \in workouts'
            /\ last'.returned.id = last'.args.workoutId
       [] last'.op = "deleteWorkoutAction" ->
            /\ TargetOf(last'.userId, last'.args) # {}
            /\ \A w \in workouts' : w.id # last'.args.workoutId

\* C24: a mutation action ran revalidatePath("/dashboard") exactly when its
\* data-layer mutation succeeded, the mutation having completed by then; it
\* did not run without a session, with an invalid input, with a target that
\* was not found, or when the data layer threw.
C24_RevalidateIffMutated ==
  [][ last'.op \in MutationActions
      => ( /\ last'.revalidated <=> MutationSucceeded
           /\ last'.userId = NullUser => ~last'.revalidated
           /\ SchemaErrors(last'.op, last'.args) # {} => ~last'.revalidated
           /\ last'.threw => ~last'.revalidated
           /\ ( /\ last'.op # "createWorkoutAction"
                /\ SchemaErrors(last'.op, last'.args) = {}
                /\ TargetOf(last'.userId, last'.args) = {} ) => ~last'.revalidated ) ]_vars

\* C24 witness: an update in a session with a valid input naming a workout of
\* another user found no target and did not revalidate.
C24_Witness ==
  /\ last.op = "updateWorkoutAction"
  /\ last.userId # NullUser
  /\ updateWorkoutSchema(last.args) = {}
  /\ last.called /\ ~last.threw
  /\ ~last.revalidated
  /\ \E w \in workouts : w.id = last.args.workoutId /\ w.userId # last.userId

\* ------------------------------------------- the two implementations agree
\* Two results hold the same workouts, each with the same exercises in the
\* same order and the same sets in the same order; the workouts may be listed
\* in another order.
SameUpToWorkoutOrder(a, b) == Len(a) = Len(b) /\ Range(a) = Range(b)

\* C25: on every store state, every result of the sequential implementation
\* and every result of the join-plus-fold implementation for the same user
\* and date agree up to the order of the workouts.
C25_ImplementationsAgree ==
  \A u \in Users, d \in Dates :
    \A a \in getWorkoutsByDateSequential(u, d), b \in getWorkoutsByDate(u, d) :
      SameUpToWorkoutOrder(a, b)

\* ------------------------------------- the interleaved-summary specification
\* getWorkoutSummary runs its four sub-queries as four statements, each
\* reading the store as committed when it runs (no transaction spans them;
\* types.ts:114-151 awaits them one after the other, and that order is one of
\* those Promise.all of part_000:148 admits).  While a call is in flight last
\* holds its position pc (sub-queries done), what they returned, and states:
\* what the call would return from each store state that existed since it
\* began.
Store == [workouts |-> workouts, workoutExercises |-> workoutExercises, sets |-> sets]

\* The summary of userId in the store state s (at most RecentLimit workouts
\* are stored, so recentWorkouts lists them all).
SummaryAt(s, userId, cutoff) ==
  LET own == {w \in s.workouts : w.userId = userId}
      wes == {we \in s.workoutExercises :
                \E w \in own : w.id = we.workoutId /\ w.date >= cutoff}
  IN  [totalWorkouts |-> Cardinality(own),
       recentWorkouts |-> {WorkoutCols(w) : w \in own},
       totalExercises |-> Cardinality(wes),
       totalSets |-> Cardinality({x \in s.sets : \E we \in wes : we.id = x.workoutExerciseId})]

InFlight == "done" \in DOMAIN last /\ ~last.done
SummaryDone == last.op = "getWorkoutSummary" /\ last.done

SummaryBegin(userId) ==
  /\ ~InFlight
  /\ last' = [op |-> "getWorkoutSummary", userId |-> userId, pc |-> 0, done |-> FALSE,
              cutoff |-> thirtyDaysAgoStr(now, tz),
              totalWorkouts |-> 0, recentWorkouts |-> <<>>,
              totalExercises |-> 0, totalSets |-> 0, result |-> Null,
              states |-> {SummaryAt(Store, userId, thirtyDaysAgoStr(now, tz))}]
  /\ UNCHANGED <<exercises, workouts, workoutExercises, sets, now, tz>>

\* The next sub-query of the call in flight; the fourth completes the call
\* and result is the summary it returns.
SummaryStep ==
  /\ InFlight /\ last.op = "getWorkoutSummary"
  /\ \E recent \in RecentQuery(last.userId) :
       LET next ==
             CASE last.pc = 0 -> [last EXCEPT !.totalWorkouts = CountWorkouts(last.userId)]
               [] last.pc = 1 -> [last EXCEPT !.recentWorkouts = recent]
               [] last.pc = 2 ->
                    [last EXCEPT !.totalExercises = CountExercises(last.userId, last.cutoff)]
               [] last.pc = 3 ->
                    [last EXCEPT !.totalSets = CountSets(last.userId, last.cutoff)]
           done == last.pc + 1 = Cardinality(SubQueries)
       IN  last' = [next EXCEPT
                      !.pc = last.pc + 1,
                      !.done = done,
                      !.result = IF done
                                 THEN WorkoutSummary(next.totalWorkouts, next.recentWorkouts,
                                                     next.totalExercises, next.totalSets)
                                 ELSE Null]
  /\ UNCHANGED <<exercises, workouts, workoutExercises, sets, now, tz>>

\* The stored tree of the workouts of userId on date in the store state s:
\* the workouts, under each its workout-exercises, under each its sets.
TreeAt(s, userId, date) ==
  { [id |-> w.id,
     exercises |-> { [id |-> we.id,
                      sets |-> {x.id : x \in {y \in s.sets : y.workoutExerciseId = we.id}}] :
                     we \in {y \in s.workoutExercises : y.workoutId = w.id} }] :
    w \in {y \in s.workouts : y.userId = userId /\ y.date = date} }

\* What the call in flight would return from the store state s.
View(call, s) ==
  IF call.op = "getWorkoutSummary" THEN SummaryAt(s, call.userId, call.cutoff)
  ELSE TreeAt(s, call.userId, call.date)

\* A mutation of another request commits: the store changes at once, and a
\* read in flight goes on against the new state.
Commit(out) ==
  /\ workouts' = out.workouts
  /\ workoutExercises' = out.workoutExercises
  /\ sets' = out.sets
  /\ last' = IF InFlight
             THEN [last EXCEPT !.states = @ \cup {View(last, out)}]
             ELSE last
  /\ UNCHANGED <<exercises, now, tz>>

CommitCreateWorkout(userId, data) ==
  \E id \in FreeIds(WorkoutIds, workouts) :
    LET r == createWorkout(userId, data, id)
    IN  Commit([workouts |-> r.workouts, workoutExercises |-> workoutExercises,
                sets |-> sets])

CommitDeleteWorkout(userId, workoutId) ==
  /\ \E w \in workouts : w.id = workoutId /\ w.userId = userId
  /\ Commit(deleteWorkout(userId, workoutId))

CommitCreateWorkoutWithExercises(userId, data) ==
  /\ Cardinality(FreeIds(WorkoutExerciseIds, workoutExercises)) >= Len(data.exercises)
  /\ Cardinality(FreeIds(SetIds, sets)) >= SetCount(data)
  /\ \E id \in FreeIds(WorkoutIds, workouts) :
       Commit(createWorkoutWithExercises(userId, data, id, 0))

\* One exercise with one set, on a date inside the 30-day window.
InterleavedInput ==
  [name |-> "n1", date |-> 2,
   exercises |-> <<[exerciseId |-> 1, sets |-> <<[weight |-> 100000, reps |-> 5]>>]>>]

NextSummaryInterleaved ==
  \/ SummaryBegin("A")
  \/ SummaryStep
  \/ CommitCreateWorkout("A", [name |-> "n1", date |-> 2])
  \/ \E w \in WorkoutIds : CommitDeleteWorkout("A", w)
  \/ CommitCreateWorkoutWithExercises("A", InterleavedInput)

SpecSummaryInterleaved == Init /\ [][NextSummaryInterleaved]_vars

\* C26: every summary a call returned is the summary of one store state that
\* existed during the call, also when a createWorkout, deleteWorkout or
\* createWorkoutWithExercises of the same user commits between its
\* sub-queries; so recentWorkouts.length <= totalWorkouts, lastWorkoutDate =
\* null only with totalWorkouts = 0, and totalSets > 0 only with
\* totalExercises > 0.
C26_SummaryOfOneState ==
  SummaryDone =>
    /\ Len(last.result.recentWorkouts) <= last.result.totalWorkouts
    /\ last.result.lastWorkoutDate = <<>> => last.result.totalWorkouts = 0
    /\ last.result.totalSets > 0 => last.result.totalExercises > 0
    /\ \E at \in last.states :
         /\ last.result.totalWorkouts = at.totalWorkouts
         /\ Range(last.result.recentWorkouts) = at.recentWorkouts
         /\ last.result.totalExercises = at.totalExercises
         /\ last.result.totalSets = at.totalSets

\* ---------------------------------------- the interleaved-read specification
\* The sequential getWorkoutsByDate runs one statement per step, each reading
\* the store as committed when it runs: the workouts query, then for every
\* workout its exercises query and one sets query per exercise (Promise.all
\* issues them together; the order of the list is one order they can run in).
\* last holds the workouts still to do (todo), the exercises fetched for the
\* first of them (cur), those whose sets are fetched (got) and the result so
\* far.
ReadDone == last.op = "getWorkoutsByDateSequential" /\ last.done

ReadBegin(userId, date) ==
  /\ ~InFlight
  /\ last' = [op |-> "getWorkoutsByDateSequential", userId |-> userId, date |-> date,
              pc |-> "workouts", done |-> FALSE, todo |-> <<>>, cur |-> <<>>,
              got |-> <<>>, result |-> <<>>,
              states |-> {TreeAt(Store, userId, date)}]
  /\ UNCHANGED <<exercises, workouts, workoutExercises, sets, now, tz>>

\* types.ts:95-101  result.push of the first workout of todo with its
\* exercises; the loop goes on with the next workout or the call returns.
Push(call, exercisesWithSets) ==
  LET workout == Head(call.todo)
  IN  [call EXCEPT
         !.result = Append(@, [id |-> workout.id, name |-> workout.name,
                               date |-> workout.date, exercises |-> exercisesWithSets]),
         !.todo = Tail(@), !.cur = <<>>, !.got = <<>>,
         !.pc = "exercises", !.done = (Tail(call.todo) = <<>>)]

ReadStep ==
  /\ InFlight /\ last.op = "getWorkoutsByDateSequential"
  /\ CASE last.pc = "workouts" ->
            LET S == {w \in workouts : w.userId = last.userId /\ w.date = last.date}
            IN  \E l \in OrderBy(S, [w \in S |-> <<>>]) :
                  last' = [last EXCEPT !.todo = l, !.pc = "exercises", !.done = (l = <<>>)]
       [] last.pc = "exercises" ->
            \E l \in ExercisesQuery(Head(last.todo).id) :
              last' = IF l = <<>> THEN Push(last, <<>>)
                      ELSE [last EXCEPT !.cur = l, !.pc = "sets"]
       [] last.pc = "sets" ->
            LET we == last.cur[Len(last.got) + 1]
            IN  \E ss \in SetsQuery(we.id) :
                  LET got == Append(last.got, [id |-> we.id, order |-> we.order,
                                               exercise |-> we.exercise, sets |-> ss])
                  IN  last' = IF Len(got) = Len(last.cur) THEN Push(last, got)
                              ELSE [last EXCEPT !.got = got]
  /\ UNCHANGED <<exercises, workouts, workoutExercises, sets, now, tz>>

NextReadInterleaved ==
  \/ ReadBegin("A", 2)
  \/ ReadStep
  \/ \E w \in WorkoutIds : CommitDeleteWorkout("A", w)
  \/ CommitCreateWorkoutWithExercises("A", InterleavedInput)

SpecReadInterleaved == Init /\ [][NextReadInterleaved]_vars

\* The tree a result shows: its workouts, their exercises, their sets.
TreeOf(result) ==
  { [id |-> w.id,
     exercises |-> { [id |-> e.id, sets |-> {x.id : x \in Range(e.sets)}] :
                     e \in Range(w.exercises) }] :
    w \in Range(result) }

\* C27: the tree the sequential getWorkoutsByDate returned is the stored tree
\* of the user's workouts on the date at one instant during the call, also
\* when a deleteWorkout or createWorkoutWithExercises of the owner commits
\* between its queries.
C27_TreeOfOneInstant ==
  ReadDone => TreeOf(last.result) \in last.states

\* ------------------------------------------- the DashboardClient specification
\* In this specification last holds the state of one mounted DashboardClient
\* of a session of user A: date, workouts and loading (part_005:12-14), and
\* fetches, the getWorkoutsByDate calls awaited at part_005:20, each with the
\* date it was started for.  shownFor is the date of the call whose response
\* setWorkouts stored (0: none yet, workouts is the initial []).
MaxFetches == 3
ClientUser == "A"
ClientIs(c) == c.op = "DashboardClient"

\* part_005:17-20  fetchWorkouts up to its await: setLoading(true) and the
\* call for the date of this render.
StartFetch(c, d) ==
  [c EXCEPT !.loading = TRUE,
            !.fetches = @ \cup {[id |-> c.started + 1, date |-> d]},
            !.started = @ + 1]

\* part_005:12-14, 16-26  the first render and its effect.
ClientMounted(d) ==
  StartFetch([op |-> "DashboardClient", date |-> d, workouts |-> <<>>, shownFor |-> 0,
              loading |-> TRUE, fetches |-> {}, started |-> 0], d)

InitClient ==
  /\ exercises = Catalog
  /\ workouts = {}
  /\ workoutExercises = {}
  /\ sets = {}
  /\ now = [day |-> StartDay, hour |-> 12]
  /\ tz = 0
  /\ last \in {ClientMounted(d) : d \in Dates}

\* part_005:36, 16-26  onDateChange: setDate(newDate), and the effect of the
\* next render starts a fetch for it (newDate is a new Date object, so the
\* effect runs also when the day is the one already selected).  Fetches still
\* pending are neither cancelled nor marked stale.
SelectDate(d) ==
  /\ ClientIs(last)
  /\ last.started < MaxFetches
  /\ last' = StartFetch([last EXCEPT !.date = d], d)
  /\ UNCHANGED <<exercises, workouts, workoutExercises, sets, now, tz>>

\* part_005:20-22  the call f resolves with the server's answer for its date:
\* setWorkouts(data); setLoading(false).
Resolve(f) ==
  /\ ClientIs(last)
  /\ f \in last.fetches
  /\ \E out \in getWorkoutsByDateAction(ClientUser, f.date) :
       last' = [last EXCEPT !.workouts = out.result, !.shownFor = f.date,
                            !.loading = FALSE, !.fetches = @ \ {f}]
  /\ UNCHANGED <<exercises, workouts, workoutExercises, sets, now, tz>>

\* part_005:20  the call f rejects: the await throws out of fetchWorkouts,
\* which has no catch, and neither setWorkouts nor setLoading(false) runs.
Reject(f) ==
  /\ ClientIs(last)
  /\ f \in last.fetches
  /\ last' = [last EXCEPT !.fetches = @ \ {f}]
  /\ UNCHANGED <<exercises, workouts, workoutExercises, sets, now, tz>>

Settle == \E f \in last.fetches : Resolve(f) \/ Reject(f)

NextClient ==
  \/ \E d \in Dates : SelectDate(d)
  \/ \E f \in last.fetches : Resolve(f)
  \/ \E f \in last.fetches : Reject(f)
  \/ \E d \in Dates : CommitCreateWorkout(ClientUser, [name |-> "n1", date |-> d])

SpecClient == InitClient /\ [][NextClient]_vars

\* Every call to the server settles: it resolves or it rejects.  The user
\* need not select another date, and no further workout need be created.
SpecClientFair == SpecClient /\ WF_vars(Settle)

\* C28: whenever no getWorkoutsByDate call is in flight, the workouts
\* DashboardClient displays are the response for the selected date, also when
\* the date changed while an earlier fetch was pending and the responses
\* arrived in another order.
C28_DisplayedForSelectedDate ==
  (last.fetches = {} /\ ~last.loading) => last.shownFor = last.date


\* C29: every fetch DashboardClient started eventually leaves loading = false,
\* also when its call rejects; and loading = false holds only when no fetch
\* is in flight.
C29_LoadingTracksFetches ==
  /\ [](ClientIs(last) => (~last.loading => last.fetches = {}))
  /\ (ClientIs(last) /\ last.fetches # {}) ~> (ClientIs(last) /\ ~last.loading)

\* ------------------------------------------- the round-trip specification
\* Workouts are created with one or two exercises of the catalog and up to
\* two sets each, a whole weight or one with three decimals, and deleted.
RoundTripSets == { [weight |-> 100000, reps |-> 5], [weight |-> 100555, reps |-> 8] }
RoundTripSetLists ==
  {<<>>} \cup {<<a>> : a \in RoundTripSets} \cup {<<a, b>> : a, b \in RoundTripSets}
RoundTripExercises == [exerciseId : {x.id : x \in Catalog}, sets : RoundTripSetLists]
RoundTripInputs ==
  [name : {"n2"}, date : {1},
   exercises : {<<a>> : a \in RoundTripExercises}
               \cup {<<a, b>> : a, b \in RoundTripExercises}]

NextRoundTrip ==
  \/ \E u \in Users, data \in RoundTripInputs : CreateWorkoutWithExercises(u, data, 0)
  \/ \E u \in Users, w \in WorkoutIds :
       DeleteWorkoutAction(u, [workoutId |-> w], FALSE)

SpecRoundTrip == Init /\ [][NextRoundTrip]_vars

Committed == last.op = "createWorkoutWithExercises" /\ ~last.threw

\* The value, in hundredths, of a text the store returned for a weight.
ParseNumeric(text) == CHOOSE c \in DOMAIN NumericText : NumericText[c] = text

\* A returned weight text against a submitted number: equal in value, or
\* (rounded) the text of the number rounded to two decimals.
EqualValue(text, number) == ParseNumeric(text) * 10 = number
RoundedValue(text, number) == text = NumericText[RoundToScale(number)]
SameWeight(text, number, rounded) ==
  IF rounded THEN RoundedValue(text, number) ELSE EqualValue(text, number)

\* In the state a committed createWorkoutWithExercises(u, data) left: every
\* result of getWorkoutsByDate(u, data.date) lists the created workout with
\* the submitted name, its exercises with the submitted exerciseIds in the
\* submitted order, and under each its sets in the submitted order with the
\* submitted reps and a weight that is the submitted one (SameWeight);
\* no result for another user lists the workout.
ReadsBackAs(rounded) ==
  LET data == last.args.data
      id == last.args.id
  IN  /\ \A r \in getWorkoutsByDate(last.userId, data.date) :
           \E k \in DOMAIN r :
             /\ r[k].id = id
             /\ r[k].name = data.name
             /\ Len(r[k].exercises) = Len(data.exercises)
             /\ \A i \in DOMAIN data.exercises :
                  LET got == r[k].exercises[i]
                      submitted == data.exercises[i]
                  IN  /\ got.exercise.id = submitted.exerciseId
                      /\ Len(got.sets) = Len(submitted.sets)
                      /\ \A j \in DOMAIN submitted.sets :
                           /\ got.sets[j].reps = submitted.sets[j].reps
                           /\ SameWeight(got.sets[j].weight, submitted.sets[j].weight, rounded)
      /\ \A v \in Users \ {last.userId}, d \in Dates :
           \A r \in getWorkoutsByDate(v, d) : \A k \in DOMAIN r : r[k].id # id

\* C30 as stated: after createWorkoutWithExercises(u, data) commits,
\* getWorkoutsByDate(u, data.date) contains a workout with the submitted name,
\* the submitted exerciseIds in order and, per exercise, sets with the
\* submitted reps and weight in order; no other user's read contains it.
C30_ReadsBackSubmitted ==
  Committed => ReadsBackAs(FALSE)

\* C30 amended: the same, the weight of each set being the submitted weight
\* rounded to two decimals, as the store's text of it.
C30_ReadsBackRounded ==
  Committed => ReadsBackAs(TRUE)

\* C30 witness: a committed call with two different exercises, the first with
\* a set of weight 100.555, reads back with that set's weight "100.56".
C30_Witness ==
  /\ Committed
  /\ Len(last.args.data.exercises) = 2
  /\ last.args.data.exercises[1].exerciseId # last.args.data.exercises[2].exerciseId
  /\ last.args.data.exercises[1].sets # <<>>
  /\ last.args.data.exercises[1].sets[1].weight = 100555
  /\ \E r \in getWorkoutsByDate(last.userId, last.args.data.date) :
       \E k \in DOMAIN r :
         /\ r[k].id = last.args.id
         /\ r[k].exercises[1].sets[1].weight = "100.56"
====
